---------------------------- MODULE Spec2Model ----------------------------
(***************************************************************************)
(* chaos-chat: the ultrasonic link layer (UltrasonicComm, src/script.js)   *)
(* as a state machine.  Two devices run the same code; each device is a    *)
(* record holding the fields of its UltrasonicComm object, and every       *)
(* method is an operator from a device record to the device record the     *)
(* method leaves behind.                                                   *)
(*                                                                         *)
(* Time: Date.now() is counted in seconds (`now`); the audio clock that    *)
(* stamps received bits is counted in milliseconds.                        *)
(***************************************************************************)
EXTENDS Integers, Sequences, FiniteSets, TLC

(***************************************************************************)
(* Bounds of the model.                                                    *)
(***************************************************************************)
\* longest free payload (bytes) of a codec scenario
MaxPayloadLen == 2
\* longest junk prefix (bits) of a resynchronisation scenario
MaxJunkBits == 1
\* most filler bytes between an oversize length byte and the next frame
MaxFiller == 1
\* the clock stops advancing at MaxTime seconds
MaxTime == 12
\* concurrent transmitData callers per device
NumCalls == 2
\* most timers (setInterval / setTimeout) alive at once per device
MaxTimers == 3
\* the same, for a device on which discovery is started again and again
MaxRestartTimers == 6
\* the clock stops at RestartHorizon seconds on such a device
RestartHorizon == 5
\* the clock stops at OfflineHorizon seconds on a device whose cleanup timer
\* is followed
OfflineHorizon == 40
\* most microphone requests and connected capture pipelines per device
MaxPipelines == 2
\* the clock stops at LinkHorizon seconds when two devices run together
LinkHorizon == 4
\* longest chat text, in characters
MaxText == 2
\* longest encryption key, in characters
MaxKey == 2
\* most entries of the message history
MaxHistory == 2
\* longest bit vector rendered by generateTone in a modem scenario
MaxBits == 4
\* most runs of the tone detector in a detector scenario
MaxDecisions == 3
\* longest run of idle bits ahead of a frame in a trimming scenario
MaxTrimJunk == 1008

(***************************************************************************)
(* Program constants.                                                      *)
(***************************************************************************)
packetHeader == <<1, 0, 1, 0, 1, 1, 0, 1>>
maxPayloadLength == 32
\* tryDecodePacket: trim when the buffer is longer than BufferCap, keep BufferKeep
BufferCap == 1000
BufferKeep == 500
\* setInterval / setTimeout periods of startDiscovery, in seconds
HeartbeatPeriod == 3
SweepPeriod == 5
DiscoveryDelay == 1
\* cleanupExpiredUsers: timeout = 10000 ms
ExpiryTimeout == 10
\* ChaosChatApp.startCleanupTimer: setInterval period, in seconds
CleanupPeriod == 5
\* ChatManager.cleanupOfflineUsers: timeout = 30000 ms
OfflineTimeout == 30
\* this.sampleRate, in Hz
sampleRate == 48000
\* UltrasonicProcessor.bufferSize and analyser.fftSize: samples per decision
bufferSize == 4096
\* UltrasonicProcessor.threshold = 0.01, in thousandths of full scale
WorkletThreshold == 10
\* startFallbackReceiver: threshold = -60 dB
FallbackThreshold == -60
\* this.volume / 2 = 0.4, in thousandths: the Goertzel magnitude of a tone
\* of amplitude `volume` that fills the window
ToneLevel == 400
\* this.maxHistorySize
maxHistorySize == 100
\* JSON.stringify of {type, userId, username, timestamp} without the two
\* string values: 20 + 12 + 14 + 26 characters (timestamp: 13 digits)
BeaconJsonOverhead == 72
\* generateUserId: substr(2, 9)
UserIdLength == 9

Devices == {"A", "B"}
CallIds == 1..NumCalls

Config(mode) ==
    IF mode = "high" THEN [freq0 |-> 18700, freq1 |-> 19300, bitRate |-> 40]
                     ELSE [freq0 |-> 17500, freq1 |-> 18100, bitRate |-> 10]

(***************************************************************************)
(* Bytes and bits.                                                         *)
(***************************************************************************)
Pow2(j) == CASE j = 0 -> 1 [] j = 1 -> 2 [] j = 2 -> 4 [] j = 3 -> 8
             [] j = 4 -> 16 [] j = 5 -> 32 [] j = 6 -> 64 [] j = 7 -> 128
             [] OTHER -> 256

\* (byte >> j) & 1
BitOf(byte, j) == (byte \div Pow2(j)) % 2

\* array.slice(from) for 0-based from
SliceFrom(s, from) == IF from >= Len(s) THEN <<>> ELSE SubSeq(s, from + 1, Len(s))

\* array.slice(-n)
SliceLast(s, n) == IF Len(s) <= n THEN s ELSE SubSeq(s, Len(s) - n + 1, Len(s))

(***************************************************************************)
(* Frame codec: the pure part.                                             *)
(***************************************************************************)
\* bit j of data[1] ^ data[2] ^ ... : set when an odd number of bytes has it
XorFoldBit(data, j) ==
    Cardinality({i \in 1..Len(data) : BitOf(data[i], j) = 1}) % 2

\* crc ^= data[i] over all bytes, from crc = 0
XorFold(data) ==
      XorFoldBit(data, 0)      + XorFoldBit(data, 1) * 2
    + XorFoldBit(data, 2) * 4  + XorFoldBit(data, 3) * 8
    + XorFoldBit(data, 4) * 16 + XorFoldBit(data, 5) * 32
    + XorFoldBit(data, 6) * 64 + XorFoldBit(data, 7) * 128

CalculateCRC_LowBits(data) == XorFold(data) % 128

\* calculateCRC: XOR of all bytes, & 0xFF
CalculateCRC(data) == XorFold(data) % 256

\* the frame encodePacket builds once the length check has passed
PacketOf(payload) ==
    packetHeader \o <<Len(payload)>> \o payload \o <<CalculateCRC(payload)>>

EncodePacket_NoLimit(payload) ==
    [ok |-> TRUE, packet |-> PacketOf(payload)]

\* encodePacket on the serialised payload: throws ("ok" false) when it is
\* longer than maxPayloadLength
EncodePacket(payload) ==
    IF Len(payload) > maxPayloadLength
    THEN [ok |-> FALSE, packet |-> <<>>]
    ELSE [ok |-> TRUE, packet |-> PacketOf(payload)]

\* createBitStream: each byte as eight bits, least significant first
CreateBitStream(packet) ==
    [k \in 1..(8 * Len(packet)) |-> BitOf(packet[((k - 1) \div 8) + 1], (k - 1) % 8)]

\* the byte the decoder reassembles from bitBuffer[start .. start+7] (0-based)
ByteAt(buf, start) ==
    LET RECURSIVE Acc(_)
        Acc(j) == IF j = 8 THEN 0 ELSE buf[start + j + 1] * Pow2(j) + Acc(j + 1)
    IN  Acc(0)

\* matchHeader(startIndex)
MatchHeader(buf, startIndex) ==
    \A i \in 0..(Len(packetHeader) - 1) :
        ByteAt(buf, startIndex + i * 8) = packetHeader[i + 1]

\* extractPacket returning null
NoPacket == [payload |-> <<>>, length |-> 0]

ExtractPacket_NoLengthCheck(buf, startIndex) ==
    LET headerLen     == Len(packetHeader) * 8
        lengthIndex   == startIndex + headerLen
        payloadLength == ByteAt(buf, lengthIndex)
        nBytes        == Len(packetHeader) + 1 + payloadLength + 1
        payload       == [k \in 1..payloadLength |->
                             ByteAt(buf, startIndex + (Len(packetHeader) + k) * 8)]
    IN  IF lengthIndex + 8 > Len(buf) THEN NoPacket
        ELSE IF startIndex + nBytes * 8 > Len(buf) THEN NoPacket
        ELSE IF ByteAt(buf, startIndex + (nBytes - 1) * 8) = CalculateCRC(payload)
             THEN [payload |-> payload, length |-> nBytes]
             ELSE NoPacket

\* extractPacket(startIndex)
ExtractPacket(buf, startIndex) ==
    LET headerLen     == Len(packetHeader) * 8
        lengthIndex   == startIndex + headerLen
        payloadLength == ByteAt(buf, lengthIndex)
        nBytes        == Len(packetHeader) + 1 + payloadLength + 1
        payload       == [k \in 1..payloadLength |->
                             ByteAt(buf, startIndex + (Len(packetHeader) + k) * 8)]
    IN  IF lengthIndex + 8 > Len(buf) THEN NoPacket
        ELSE IF payloadLength > maxPayloadLength THEN NoPacket
        ELSE IF startIndex + nBytes * 8 > Len(buf) THEN NoPacket
        ELSE IF ByteAt(buf, startIndex + (nBytes - 1) * 8) = CalculateCRC(payload)
             THEN [payload |-> payload, length |-> nBytes]
             ELSE NoPacket

\* the offsets the for loop of tryDecodePacket visits
ScanOffsets(buf) ==
    {i \in 0..(Len(buf) - Len(packetHeader) * 8) : i % 8 = 0}

\* the offsets at which the loop would find a packet
PacketOffsets(buf) ==
    {i \in ScanOffsets(buf) : MatchHeader(buf, i) /\ ExtractPacket(buf, i) # NoPacket}

Min(S) == CHOOSE x \in S : \A y \in S : x <= y


(***************************************************************************)
(* Datagrams.  A datagram is what JSON.parse hands to the handlers: its    *)
(* type, the userId it carries, and `size`, the number of UTF-8 bytes of   *)
(* its JSON text when the sender's code did not build it from fields.      *)
(***************************************************************************)
UserIds == Devices

\* getUsername(): localStorage username, else "用户" (6 bytes) + 4 characters
UsernameBytes == 10

\* sendHeartbeat: {type: 'heartbeat', userId, username, timestamp}
Heartbeat(userId) == [type |-> "heartbeat", userId |-> userId, size |-> 0]

\* sendDiscovery: {type: 'discovery', userId, username, timestamp}
Discovery(userId) == [type |-> "discovery", userId |-> userId, size |-> 0]

\* any other datagram a caller of transmitData passes, by serialised size
Other(size) == [type |-> "other", userId |-> "", size |-> size]

\* new TextEncoder().encode(JSON.stringify(data)).length
PayloadLength(data) ==
    IF data.type \in {"heartbeat", "discovery"}
    THEN BeaconJsonOverhead + UserIdLength + UsernameBytes
    ELSE data.size

\* the serialised payload: PayloadLength(data) bytes of JSON text, each
\* written as "{" (the transmit path reads only their number)
JsonBytes(data) == [i \in 1..PayloadLength(data) |-> 123]

\* sizes of the datagrams foreground callers send
OtherSizes == {2, maxPayloadLength, maxPayloadLength + 1, 2 * maxPayloadLength}

\* beacons as they arrive from the decoder (any userId a frame can carry)
Beacons == {Heartbeat(u) : u \in UserIds} \cup {Discovery(u) : u \in UserIds}

NoData == Other(0)

(***************************************************************************)
(* State.                                                                  *)
(***************************************************************************)
VARIABLES
    dev,        \* dev[d]: the fields of device d's UltrasonicComm and ChatManager
    air,        \* frames being played: [from, to, data], one per listening device
    now,        \* Date.now(), in seconds
    scenario,   \* codec scenarios: how the bit stream is made up
    stream,     \* codec scenarios: the bits the detector delivers, in order
    pos,        \* codec scenarios: number of bits delivered so far
    lastOp      \* the handler that ran last, with its device and argument

vars == <<dev, air, now, scenario, stream, pos, lastOp>>

\* new Map()
EmptyMap == [u \in {} |-> 0]

\* map.set(key, value)
MapSet(m, key, value) ==
    [u \in DOMAIN m \cup {key} |-> IF u = key THEN value ELSE m[u]]

IdleCall == [pc |-> "idle", data |-> NoData, ok |-> FALSE, bits |-> 0]

\* what runs after a caller's `await transmitData(...)`: the caller and the
\* room object it holds; "" for callers that do nothing afterwards
NoThen == [then |-> "", room |-> ""]

\* the fields after `new UltrasonicComm()` and `new ChatManager(comm)`
\* hasWorklet: audioContext.audioWorklet exists; currentFrame: the audio
\* clock in sample frames; processorLastBit: UltrasonicProcessor.lastBitTime
\* in sample frames; posted: the bit events handed to processBit so far;
\* timerIds: the ids setInterval and setTimeout hand out on this device
NewDevice(d, ctx) ==
    [ myUserId          |-> d,
      isInitialized     |-> FALSE,
      isTransmitting    |-> FALSE,
      isReceiving       |-> FALSE,
      currentMode       |-> "high",
      ctxState          |-> ctx,
      status            |-> "none",
      calls             |-> [c \in CallIds |-> IdleCall],
      micPending        |-> 0,
      microphone        |-> FALSE,
      pipelines         |-> 0,
      bitBufferDefined  |-> FALSE,
      bitBuffer         |-> <<>>,
      lastBitTime       |-> 0,
      hasWorklet        |-> TRUE,
      currentFrame      |-> 0,
      processorLastBit  |-> 0,
      posted            |-> <<>>,
      rxPackets         |-> <<>>,
      discoveredUsers   |-> EmptyMap,
      offlineLog        |-> {},
      heartbeatInterval |-> 0,
      discoveryInterval |-> 0,
      timers            |-> {},
      timerIds          |-> 1..MaxTimers,
      connectedUsers    |-> EmptyMap,
      currentRoom       |-> "",
      rooms             |-> EmptyMap,
      isPrivateMode     |-> FALSE,
      encryptionKey     |-> <<>>,
      messageHistory    |-> <<>>,
      pending           |-> [c \in CallIds |-> NoThen],
      raised            |-> <<>>,
      unnotified        |-> <<>>,
      roomNotified      |-> [id |-> "", isPrivate |-> FALSE],
      lastToggle        |-> "none" ]

Op(name, d, arg) == [op |-> name, dev |-> d, arg |-> arg]

(***************************************************************************)
(* Frame codec: the receive path.                                          *)
(***************************************************************************)
\* handleReceivedPacket on a payload that is not the JSON text of a typed
\* datagram: JSON.parse throws or yields a value without `type`, and no
\* handler runs.  rxPackets records the packets the decoder emitted.
HandleReceivedPacket(s, packet) ==
    [s EXCEPT !.rxPackets = Append(@, packet.payload)]

TryDecodePacket_NoTrim(s) ==
    LET buf  == s.bitBuffer
        hits == PacketOffsets(buf)
    IN
    IF Len(buf) < (Len(packetHeader) + 2) * 8 THEN s
    ELSE IF hits # {}
    THEN LET i      == Min(hits)
             packet == ExtractPacket(buf, i)
         IN  [HandleReceivedPacket(s, packet) EXCEPT
                 !.bitBuffer = SliceFrom(buf, i + packet.length * 8)]
    ELSE s

\* tryDecodePacket
TryDecodePacket(s) ==
    LET buf  == s.bitBuffer
        hits == PacketOffsets(buf)
    IN
    IF Len(buf) < (Len(packetHeader) + 2) * 8 THEN s
    ELSE IF hits # {}
    THEN LET i      == Min(hits)
             packet == ExtractPacket(buf, i)
         IN  [HandleReceivedPacket(s, packet) EXCEPT
                 !.bitBuffer = SliceFrom(buf, i + packet.length * 8)]
    ELSE IF Len(buf) > BufferCap
    THEN [s EXCEPT !.bitBuffer = SliceLast(buf, BufferKeep)]
    ELSE s

\* 1 / bitRate, in milliseconds
ExpectedInterval(s) == 1000 \div Config(s.currentMode).bitRate

\* processBit(bit, timestamp), timestamp in milliseconds
ProcessBit(s, bit, timestamp) ==
    LET s1 == IF ~s.bitBufferDefined
              THEN [s EXCEPT !.bitBufferDefined = TRUE, !.bitBuffer = <<>>,
                             !.lastBitTime = timestamp]
              ELSE s
        timeDiff == timestamp - s1.lastBitTime
        s2 == IF timeDiff > ExpectedInterval(s1) * 2
              THEN [s1 EXCEPT !.bitBuffer = <<>>]
              ELSE s1
        s3 == [s2 EXCEPT !.bitBuffer = Append(@, bit), !.lastBitTime = timestamp]
    IN  TryDecodePacket(s3)

(***************************************************************************)
(* Codec scenarios: the bit streams the frame codec is driven with.        *)
(***************************************************************************)
PayloadBytes == {0, 1, 123}

RECURSIVE SeqsUpTo(_, _)
\* all sequences over S of length at most n
SeqsUpTo(S, n) ==
    IF n = 0 THEN {<<>>}
    ELSE LET shorter == SeqsUpTo(S, n - 1)
         IN  shorter \cup {Append(q, x) : q \in shorter, x \in S}

Payloads == SeqsUpTo(PayloadBytes, MaxPayloadLen)

\* payloads that are themselves the bytes of a frame
NestedPayloads == {PacketOf(q) : q \in {<<>>, <<123>>}}

ResyncPayloads == {<<123>>, <<0, 1>>}

JunkBits == SeqsUpTo({0, 1}, MaxJunkBits)

Fillers == SeqsUpTo(PayloadBytes, MaxFiller)

OversizeLengths == {maxPayloadLength + 1, 127, 255}

\* the payload bytes and the matching checksum of a complete frame whose
\* length byte is n
FullBody(n) == LET body == [i \in 1..n |-> 123] IN body \o <<CalculateCRC(body)>>

\* what follows the header of an oversize candidate: its length byte and
\* the bytes before the next frame
OversizeTails ==
         {<<n>> \o f : n \in OversizeLengths, f \in Fillers}
    \cup {<<maxPayloadLength + 1>> \o FullBody(maxPayloadLength + 1)}

\* encode: the bits transmitData hands to generateTone for a payload
Encode(p) == CreateBitStream(EncodePacket(p).packet)

FlipBit(bits, k) == [bits EXCEPT ![k] = 1 - @]

\* first bit (1-based) of the payload bytes within a frame's bits
PayloadStart == (Len(packetHeader) + 1) * 8

Scenario(kind, p1, p2, junk1, junk2, flip, badLen, filler) ==
    [kind |-> kind, p1 |-> p1, p2 |-> p2, junk1 |-> junk1, junk2 |-> junk2,
     flip |-> flip, badLen |-> badLen, filler |-> filler]

NoScenario == Scenario("none", <<>>, <<>>, <<>>, <<>>, 0, 0, <<>>)

Scenarios ==
         {Scenario("frame", p, <<>>, <<>>, <<>>, 0, 0, <<>>) :
             p \in Payloads \cup NestedPayloads}
    \cup {Scenario("resync", p1, p2, j1, j2, 0, 0, <<>>) :
             p1 \in ResyncPayloads, p2 \in ResyncPayloads,
             j1 \in JunkBits, j2 \in JunkBits}
    \cup UNION {{Scenario("corrupt", p, <<>>, <<>>, <<>>, k, 0, <<>>) :
                    k \in 1..((Len(p) + 1) * 8)} : p \in Payloads}
    \cup {Scenario("oversize", p, <<>>, <<>>, <<>>, 0, Head(t), Tail(t)) :
             p \in Payloads, t \in OversizeTails}

\* the bits of a scenario, in order of arrival
Stream(sc) ==
    CASE sc.kind = "frame"    -> Encode(sc.p1)
      [] sc.kind = "resync"   -> sc.junk1 \o Encode(sc.p1) \o sc.junk2 \o Encode(sc.p2)
      [] sc.kind = "corrupt"  -> FlipBit(Encode(sc.p1), PayloadStart + sc.flip)
      [] sc.kind = "oversize" ->
            CreateBitStream(packetHeader \o <<sc.badLen>> \o sc.filler) \o Encode(sc.p1)
      [] sc.kind = "trim"     -> sc.junk1 \o Encode(sc.p1)
      [] sc.kind = "pause"    -> Encode(sc.p1)
      [] OTHER -> <<>>

\* the detector's timestamp of the k-th bit: one bit period apart
BitTimestamp(s, k) == k * ExpectedInterval(s)

\* the same in a scenario with a pause: the bits after the first sc.flip
\* arrive sc.badLen milliseconds later
ArrivalTime(s, sc, k) ==
    BitTimestamp(s, k) + (IF sc.kind = "pause" /\ k > sc.flip THEN sc.badLen ELSE 0)

\* the detector delivers the next bit of the stream to processBit
DeliverBit(d) ==
    /\ pos < Len(stream)
    /\ dev' = [dev EXCEPT ![d] =
                  ProcessBit(@, stream[pos + 1], ArrivalTime(@, scenario, pos + 1))]
    /\ pos' = pos + 1
    /\ lastOp' = Op("processBit", d, NoData)
    /\ UNCHANGED <<air, now, scenario, stream>>

InitCodec ==
    /\ dev = [d \in Devices |-> NewDevice(d, "running")]
    /\ air = {}
    /\ now = 0
    /\ scenario \in Scenarios
    /\ stream = Stream(scenario)
    /\ pos = 0
    /\ lastOp = Op("new", "B", NoData)

NextCodec == DeliverBit("B")

SpecCodec == InitCodec /\ [][NextCodec]_vars


(***************************************************************************)
(* Frame codec: claims.                                                    *)
(***************************************************************************)
rx == dev["B"].rxPackets

StreamDone == pos = Len(stream)

\* C1: a frame delivered bit by bit without gaps into an empty buffer makes
\* the decoder emit exactly one packet, whose payload is the encoded
\* payload, and no other packet before it.
C1_FrameRoundTrip ==
    scenario.kind = "frame" =>
        /\ rx \in {<<>>, <<scenario.p1>>}
        /\ StreamDone => rx = <<scenario.p1>>

\* C2: junk1 || encode(p1) || junk2 || encode(p2), delivered without gaps,
\* makes the decoder emit exactly the packets p1, p2 in that order.
C2_Resynchronisation ==
    (scenario.kind = "resync" /\ StreamDone) => rx = <<scenario.p1, scenario.p2>>

\* the payload bytes a corrupt scenario's frame carries after the flip
CorruptPayload(sc) ==
    [k \in 1..Len(sc.p1) |-> ByteAt(Stream(sc), PayloadStart + (k - 1) * 8)]

\* C3: a valid frame with one bit of a payload byte or of the checksum byte
\* flipped is rejected by extractPacket, and the decoder emits no packet
\* for it.
C3_ChecksumCoverage ==
    scenario.kind = "corrupt" =>
        /\ rx = <<>>
        /\ StreamDone =>
              /\ MatchHeader(dev["B"].bitBuffer, 0)
              /\ ExtractPacket(dev["B"].bitBuffer, 0) = NoPacket

\* C3 witness: a frame with a flipped payload bit has arrived in full
C3_Witness ==
    /\ scenario.kind = "corrupt"
    /\ StreamDone
    /\ Len(scenario.p1) > 0
    /\ scenario.flip <= 8 * Len(scenario.p1)
    /\ CorruptPayload(scenario) # scenario.p1

\* C5: a candidate whose length byte exceeds 32 yields no packet, whatever
\* follows it, and the valid frame behind it in the buffer is emitted.
C5_OversizeRejected ==
    scenario.kind = "oversize" =>
        /\ rx \in {<<>>, <<scenario.p1>>}
        /\ \A k \in 1..Len(rx) : Len(rx[k]) <= maxPayloadLength
        /\ StreamDone => rx = <<scenario.p1>>

\* C5 witness: a complete, checksum-correct frame of 33 payload bytes was
\* passed over and the frame behind it came out
C5_Witness ==
    /\ scenario.kind = "oversize"
    /\ scenario.badLen = maxPayloadLength + 1
    /\ scenario.filler = FullBody(maxPayloadLength + 1)
    /\ StreamDone
    /\ rx = <<scenario.p1>>


(***************************************************************************)
(* Transmit path.                                                          *)
(***************************************************************************)
\* (10 + 32) * 8
MaxFrameBits == (Len(packetHeader) + 2 + maxPayloadLength) * 8

SetCall(s, c, pc, data, ok, bits) ==
    [s EXCEPT !.calls[c] = [pc |-> pc, data |-> data, ok |-> ok, bits |-> bits]]

TransmitLocked_LockKeptOnError(s, c, data) ==
    LET enc == EncodePacket(JsonBytes(data)) IN
    IF ~enc.ok
    THEN SetCall([s EXCEPT !.isTransmitting = TRUE, !.status = "error"],
                 c, "returned", data, FALSE, 0)
    ELSE SetCall([s EXCEPT !.isTransmitting = TRUE, !.status = "transmitting"],
                 c, "playing", data, FALSE, Len(CreateBitStream(enc.packet)))

\* transmitData from `this.isTransmitting = true` to the await of
\* generateTone, or to the catch block when encodePacket throws
TransmitLocked(s, c, data) ==
    LET enc == EncodePacket(JsonBytes(data)) IN
    IF ~enc.ok
    THEN SetCall([s EXCEPT !.isTransmitting = FALSE, !.status = "error"],
                 c, "returned", data, FALSE, 0)
    ELSE SetCall([s EXCEPT !.isTransmitting = TRUE, !.status = "transmitting"],
                 c, "playing", data, FALSE, Len(CreateBitStream(enc.packet)))

\* transmitData(data) up to its first await
TransmitData(s, c, data) ==
    IF ~s.isInitialized \/ s.isTransmitting
    THEN SetCall(s, c, "returned", data, FALSE, 0)
    ELSE IF s.ctxState = "suspended"
    THEN SetCall(s, c, "resuming", data, FALSE, 0)
    ELSE TransmitLocked(s, c, data)

\* transmitData after `await this.audioContext.resume()`
AfterResume(s, c) ==
    TransmitLocked([s EXCEPT !.ctxState = "running"], c, s.calls[c].data)

\* transmitData after `await this.generateTone(bits)`: source.onended
AfterTone(s, c) ==
    SetCall([s EXCEPT !.isTransmitting = FALSE, !.status = "ready"],
            c, "returned", s.calls[c].data, TRUE, s.calls[c].bits)

FreeCalls(s) == {c \in CallIds : s.calls[c].pc \in {"idle", "returned"}}

Listeners == {e \in Devices : dev[e].pipelines > 0}

\* the frames a call puts in the air when its tone starts playing
Played(d, before, after, c) ==
    IF after.calls[c].pc = "playing" /\ before.calls[c].pc # "playing"
    THEN {[from |-> d, to |-> e, data |-> after.calls[c].data] : e \in Listeners}
    ELSE {}

\* init() has completed
InitComplete(d) ==
    /\ ~dev[d].isInitialized
    /\ dev' = [dev EXCEPT ![d] = [@ EXCEPT !.isInitialized = TRUE, !.status = "ready"]]
    /\ lastOp' = Op("init", d, NoData)
    /\ UNCHANGED <<air, now, scenario, stream, pos>>

\* a caller invokes transmitData(data)
Transmit(d, c, data) ==
    /\ c \in FreeCalls(dev[d])
    /\ LET after == TransmitData(dev[d], c, data) IN
          /\ dev' = [dev EXCEPT ![d] = after]
          /\ air' = air \cup Played(d, dev[d], after, c)
    /\ lastOp' = Op("transmitData", d, data)
    /\ UNCHANGED <<now, scenario, stream, pos>>

\* audioContext.resume() resolves for a waiting call
ResumeResolved(d, c) ==
    /\ dev[d].calls[c].pc = "resuming"
    /\ LET after == AfterResume(dev[d], c) IN
          /\ dev' = [dev EXCEPT ![d] = after]
          /\ air' = air \cup Played(d, dev[d], after, c)
    /\ lastOp' = Op("resumed", d, dev[d].calls[c].data)
    /\ UNCHANGED <<now, scenario, stream, pos>>

\* the buffer source of a call ends
PlaybackEnded(d, c) ==
    /\ dev[d].calls[c].pc = "playing"
    /\ dev' = [dev EXCEPT ![d] = AfterTone(@, c)]
    /\ lastOp' = Op("ended", d, dev[d].calls[c].data)
    /\ UNCHANGED <<air, now, scenario, stream, pos>>

\* what the callers of one device pass to transmitData
TxData(d) == {Heartbeat(d), Discovery(d)} \cup {Other(n) : n \in OtherSizes}

InitTx ==
    /\ \E ctx \in {"suspended", "running"} :
          dev = [d \in Devices |-> NewDevice(d, ctx)]
    /\ air = {}
    /\ now = 0
    /\ scenario = NoScenario
    /\ stream = <<>>
    /\ pos = 0
    /\ lastOp = Op("new", "A", NoData)

NextTx ==
    \/ InitComplete("A")
    \/ \E c \in CallIds, data \in TxData("A") : Transmit("A", c, data)
    \/ \E c \in CallIds : ResumeResolved("A", c)
    \/ \E c \in CallIds : PlaybackEnded("A", c)

SpecTx == InitTx /\ [][NextTx]_vars

(***************************************************************************)
(* Transmit path: claims.                                                  *)
(***************************************************************************)
\* C4: a datagram whose serialised payload exceeds 32 bytes is refused by
\* transmitData (it returns false) and no tone is rendered for it; every
\* bit stream handed to generateTone has at most 336 bits.
C4_SendLengthBound ==
    \A d \in Devices, c \in CallIds :
        LET call == dev[d].calls[c] IN
        /\ call.bits <= MaxFrameBits
        /\ PayloadLength(call.data) > maxPayloadLength =>
              /\ call.pc # "playing"
              /\ call.bits = 0
              /\ call.pc = "returned" => ~call.ok

\* C4 witness: a transmitData of a 33-byte payload took the lock, failed in
\* encodePacket and returned false
C4_Witness ==
    \E c \in CallIds :
        /\ lastOp = Op("transmitData", "A", Other(maxPayloadLength + 1))
        /\ dev["A"].status = "error"
        /\ dev["A"].calls[c] =
              [pc |-> "returned", data |-> Other(maxPayloadLength + 1),
               ok |-> FALSE, bits |-> 0]

\* C6: at most one frame is being rendered or played at any time.
C6_SingleInFlight ==
    \A d \in Devices :
        Cardinality({c \in CallIds : dev[d].calls[c].pc = "playing"}) <= 1


(***************************************************************************)
(* Obfuscation cipher.  Strings are sequences of character codes.          *)
(***************************************************************************)
\* a ^ b on bytes
XorByte(a, b) ==
      ((BitOf(a, 0) + BitOf(b, 0)) % 2)
    + ((BitOf(a, 1) + BitOf(b, 1)) % 2) * 2
    + ((BitOf(a, 2) + BitOf(b, 2)) % 2) * 4
    + ((BitOf(a, 3) + BitOf(b, 3)) % 2) * 8
    + ((BitOf(a, 4) + BitOf(b, 4)) % 2) * 16
    + ((BitOf(a, 5) + BitOf(b, 5)) % 2) * 32
    + ((BitOf(a, 6) + BitOf(b, 6)) % 2) * 64
    + ((BitOf(a, 7) + BitOf(b, 7)) % 2) * 128

\* keyBytes[i % keyBytes.length], i counted from 0; undefined acts as 0 in ^
KeyByte(key, i) == IF Len(key) = 0 THEN 0 ELSE key[(i % Len(key)) + 1]

\* the character toString(16) writes for a digit value: '0'..'9', 'a'..'f'
HexDigit(v) == IF v < 10 THEN 48 + v ELSE 87 + v

\* b.toString(16).padStart(2, '0')
ToHex2(b) == <<HexDigit(b \div 16), HexDigit(b % 16)>>

\* encryptMessage(message, key): message and key as their UTF-8 bytes
EncryptMessage(message, key) ==
    [i \in 1..(2 * Len(message)) |->
        LET n == (i + 1) \div 2
        IN  ToHex2(XorByte(message[n], KeyByte(key, n - 1)))[2 - (i % 2)]]

\* the value of a hexadecimal digit character, -1 for any other character
HexValue(ch) ==
    CASE ch \in 48..57  -> ch - 48
      [] ch \in 97..102 -> ch - 87
      [] ch \in 65..70  -> ch - 55
      [] OTHER          -> -1

\* parseInt(h, 16) of a two-character string, stored into a Uint8Array:
\* the leading hexadecimal digits count, NaN is stored as 0
ParseHexPair(c1, c2) ==
    IF HexValue(c1) < 0 THEN 0
    ELSE IF HexValue(c2) < 0 THEN HexValue(c1)
    ELSE 16 * HexValue(c1) + HexValue(c2)

\* new TextDecoder().decode of one byte outside a multi-byte sequence
Utf8Decode(b) == IF b < 128 THEN b ELSE 65533

\* decryptMessage(encryptedHex, key): match(/.{2}/g) is null for a string
\* shorter than two characters and null.map throws
DecryptMessage(encryptedHex, key) ==
    IF Len(encryptedHex) < 2
    THEN [ok |-> FALSE, text |-> <<>>]
    ELSE [ok   |-> TRUE,
          text |-> [i \in 1..(Len(encryptedHex) \div 2) |->
                       Utf8Decode(XorByte(ParseHexPair(encryptedHex[2 * i - 1],
                                                       encryptedHex[2 * i]),
                                          KeyByte(key, i - 1)))]]

\* characters of the messages ("h", "i") and of the keys ("k", "1")
TextChars == {104, 105}
KeyChars == {107, 49}

Texts == SeqsUpTo(TextChars, MaxText)

\* generateEncryptionKey(): a non-empty string of characters of base 36
Keys == SeqsUpTo(KeyChars, MaxKey) \ {<<>>}

(***************************************************************************)
(* Chat session: datagrams, rooms, message history, callbacks.             *)
(***************************************************************************)
\* generateRoomId(): the room this device creates or is invited to, and
\* any other room
OwnRoom == "R"
RoomIds == {OwnRoom, "Q"}

\* generateMessageId(): the ids of chat messages (system messages carry 0,
\* their ids are never compared)
MessageIds == {1}

\* bytes of JSON.stringify of a ChatManager datagram with a 9-character
\* userId, a 10-byte username, an 8-character roomId, a 12-character
\* messageId, a 16-character key and a 13-digit timestamp
ControlJsonBytes(type) ==
    CASE type = "chat"        -> 195
      [] type = "invite"      -> 185
      [] type = "join_room"   -> 111
      [] type = "leave_room"  -> 112
      [] type = "room_update" -> 154
      [] type = "private_key" -> 128
      [] OTHER                -> 0

\* the fields the handlers read; "" and <<>> stand for an absent field
BlankData ==
    [type |-> "", userId |-> "", size |-> 0, roomId |-> "", fromUserId |-> "",
     toUserId |-> "", messageId |-> 0, content |-> <<>>, isEncrypted |-> FALSE,
     isPrivate |-> FALSE, encryptionKey |-> <<>>]

\* sendMessage: {type: 'chat', messageId, roomId, fromUserId, content, isEncrypted, ...}
ChatData(roomId, from, messageId, content, isEncrypted) ==
    [BlankData EXCEPT !.type = "chat", !.roomId = roomId, !.fromUserId = from,
                      !.messageId = messageId, !.content = content,
                      !.isEncrypted = isEncrypted,
                      !.size = ControlJsonBytes("chat") + Len(content)]

\* inviteUser: {type: 'invite', fromUserId, toUserId, roomId, isPrivate, encryptionKey?, ...}
InviteData(from, to, roomId, isPrivate, key) ==
    [BlankData EXCEPT !.type = "invite", !.fromUserId = from, !.toUserId = to,
                      !.roomId = roomId, !.isPrivate = isPrivate,
                      !.encryptionKey = key,
                      !.size = ControlJsonBytes("invite")]

\* acceptInvite: {type: 'join_room', userId, username, roomId, timestamp}
JoinRoomData(userId, roomId) ==
    [BlankData EXCEPT !.type = "join_room", !.userId = userId, !.roomId = roomId,
                      !.size = ControlJsonBytes("join_room")]

\* leaveRoom: {type: 'leave_room', userId, username, roomId, timestamp}
LeaveRoomData(userId, roomId) ==
    [BlankData EXCEPT !.type = "leave_room", !.userId = userId, !.roomId = roomId,
                      !.size = ControlJsonBytes("leave_room")]

\* broadcastRoomUpdate: {type: 'room_update', roomId, isPrivate, createdBy, ...}
RoomUpdateData(roomId, isPrivate, createdBy) ==
    [BlankData EXCEPT !.type = "room_update", !.roomId = roomId,
                      !.isPrivate = isPrivate, !.fromUserId = createdBy,
                      !.size = ControlJsonBytes("room_update")]

\* distributeEncryptionKey: {type: 'private_key', roomId, encryptionKey, fromUserId, timestamp}
PrivateKeyData(roomId, key, from) ==
    [BlankData EXCEPT !.type = "private_key", !.roomId = roomId,
                      !.encryptionKey = key, !.fromUserId = from,
                      !.size = ControlJsonBytes("private_key")]

\* {"type":"private_key"}: the private_key datagram short enough for a frame
BarePrivateKey == [BlankData EXCEPT !.type = "private_key", !.size = 22]

\* a room object of createOrJoinRoom / acceptInvite / handleRoomUpdate
Room(id, isPrivate, members, createdBy, key) ==
    [id |-> id, isPrivate |-> isPrivate, members |-> members,
     createdBy |-> createdBy, encryptionKey |-> key]

\* what an onRoomStateChanged listener reads from its argument: the room's
\* id and privacy, or null
RoomState(id, isPrivate) == [id |-> id, isPrivate |-> isPrivate]

NullRoom == RoomState("", FALSE)

\* the state of room object `id` as the rooms map holds it
RoomStateOf(s, id) ==
    IF id = "" THEN NullRoom ELSE RoomState(id, s.rooms[id].isPrivate)

\* this.currentRoom, as a listener sees it
CurrentRoomState(s) == RoomStateOf(s, s.currentRoom)

\* a ChatManager callback is raised to the application
Raise(s, callback) == [s EXCEPT !.raised = Append(@, callback)]

\* a handler starts: nothing raised yet
ClearRaised(s) == [s EXCEPT !.raised = <<>>]

\* the room state has just been set to `state`; unnotified lists the
\* results of transitions no onRoomStateChanged has carried yet
Transition(s, state) == [s EXCEPT !.unnotified = Append(@, state)]

RECURSIVE RemoveFirst(_, _)
\* q without its first element equal to x
RemoveFirst(q, x) ==
    IF q = <<>> THEN <<>>
    ELSE IF Head(q) = x THEN Tail(q)
    ELSE <<Head(q)>> \o RemoveFirst(Tail(q), x)

\* this.onRoomStateChanged(room)
NotifyRoom(s, state) ==
    [Raise(s, "onRoomStateChanged") EXCEPT
        !.unnotified = RemoveFirst(@, state),
        !.roomNotified = state]

Message(type, messageId, from, content, note, about, isOwn) ==
    [type |-> type, messageId |-> messageId, fromUserId |-> from,
     content |-> content, note |-> note, about |-> about, isOwn |-> isOwn]

\* addMessage
AddMessage(s, message) ==
    LET h == Append(s.messageHistory, message) IN
    [s EXCEPT !.messageHistory =
        IF Len(h) > maxHistorySize THEN SliceLast(h, maxHistorySize) ELSE h]

\* addSystemMessage: `note` names the text, `about` the user it mentions
AddSystemMessage(s, note, about) ==
    Raise(AddMessage(s, Message("system", 0, "", <<>>, note, about, FALSE)),
          "onMessageReceived")

(***************************************************************************)
(* Chat session: handlers of received datagrams.                           *)
(***************************************************************************)
HandleChatMessage_DropUndecryptable(s, data) ==
    IF s.currentRoom = "" \/ data.roomId # s.currentRoom THEN s
    ELSE IF data.fromUserId = s.myUserId THEN s
    ELSE IF data.isEncrypted /\ s.encryptionKey = <<>> THEN s
    ELSE LET dec == DecryptMessage(data.content, s.encryptionKey)
             shown ==
                 IF data.isEncrypted
                 THEN IF dec.ok
                      THEN [content |-> dec.text, note |-> ""]
                      ELSE [content |-> <<>>, note |-> "decryption failed"]
                 ELSE [content |-> data.content, note |-> ""]
         IN  Raise(AddMessage(s, Message("chat", data.messageId, data.fromUserId,
                                         shown.content, shown.note, "", FALSE)),
                   "onMessageReceived")

\* ChatManager.handleChatMessage
HandleChatMessage(s, data) ==
    IF s.currentRoom = "" \/ data.roomId # s.currentRoom THEN s
    ELSE IF data.fromUserId = s.myUserId THEN s
    ELSE LET dec == DecryptMessage(data.content, s.encryptionKey)
             shown ==
                 IF data.isEncrypted /\ s.encryptionKey # <<>>
                 THEN IF dec.ok
                      THEN [content |-> dec.text, note |-> ""]
                      ELSE [content |-> <<>>, note |-> "decryption failed"]
                 ELSE IF data.isEncrypted
                 THEN [content |-> <<>>, note |-> "no key"]
                 ELSE [content |-> data.content, note |-> ""]
         IN  Raise(AddMessage(s, Message("chat", data.messageId, data.fromUserId,
                                         shown.content, shown.note, "", FALSE)),
                   "onMessageReceived")

HandleInvite_NoAddressCheck(s, data) == Raise(s, "onInviteReceived")

\* ChatManager.handleInvite
HandleInvite(s, data) ==
    IF data.toUserId = s.myUserId THEN Raise(s, "onInviteReceived") ELSE s

HandleJoinRoom_NoMessage(s, data, t) ==
    IF data.roomId \in DOMAIN s.rooms /\ s.currentRoom = data.roomId
    THEN Raise([s EXCEPT !.rooms[data.roomId].members = @ \cup {data.userId},
                         !.connectedUsers =
                             MapSet(@, data.userId,
                                    [userId |-> data.userId, lastSeen |-> t,
                                     isOnline |-> TRUE])],
               "onUserJoined")
    ELSE s

\* ChatManager.handleJoinRoom at time t
HandleJoinRoom(s, data, t) ==
    IF data.roomId \in DOMAIN s.rooms /\ s.currentRoom = data.roomId
    THEN LET s1 == [s EXCEPT
                       !.rooms[data.roomId].members = @ \cup {data.userId},
                       !.connectedUsers =
                           MapSet(@, data.userId,
                                  [userId |-> data.userId, lastSeen |-> t,
                                   isOnline |-> TRUE])]
         IN  AddSystemMessage(Raise(s1, "onUserJoined"), "joined", data.userId)
    ELSE s

\* ChatManager.handleLeaveRoom
HandleLeaveRoom(s, data) ==
    IF data.roomId \in DOMAIN s.rooms /\ s.currentRoom = data.roomId
    THEN LET s1 == [s EXCEPT !.rooms[data.roomId].members = @ \ {data.userId}]
         IN  AddSystemMessage(Raise(s1, "onUserLeft"), "left", data.userId)
    ELSE s

\* ChatManager.handleRoomUpdate
HandleRoomUpdate(s, data) ==
    IF data.roomId \notin DOMAIN s.rooms /\ ~data.isPrivate
    THEN [s EXCEPT !.rooms = MapSet(@, data.roomId,
                                    Room(data.roomId, data.isPrivate, {},
                                         data.fromUserId, <<>>))]
    ELSE s

\* ChatManager.handlePrivateKey; with no current room and no roomId in the
\* datagram the comparison is undefined === undefined and the assignment to
\* this.currentRoom.isPrivate throws after the first two assignments
HandlePrivateKey(s, data) ==
    IF data.roomId # s.currentRoom THEN s
    ELSE LET s1 == [s EXCEPT !.encryptionKey = data.encryptionKey,
                             !.isPrivateMode = TRUE]
         IN  IF s.currentRoom = "" THEN s1
             ELSE LET s2 == [s1 EXCEPT
                                !.rooms[s.currentRoom].isPrivate = TRUE,
                                !.rooms[s.currentRoom].encryptionKey = data.encryptionKey,
                                !.lastToggle = "none"]
                      s3 == AddSystemMessage(s2, "key received", "")
                  IN  NotifyRoom(Transition(s3, CurrentRoomState(s3)),
                                 CurrentRoomState(s3))

(***************************************************************************)
(* Capture, discovery timers and the peer table.                           *)
(***************************************************************************)
\* startReceiving up to `await getUserMedia(...)`
StartReceiving(s) ==
    IF ~s.isInitialized \/ s.isReceiving THEN s
    ELSE [s EXCEPT !.micPending = @ + 1]

\* startReceiving after getUserMedia resolved: the source is connected to a
\* new detector node
AfterMicGranted(s) ==
    [s EXCEPT !.micPending = @ - 1, !.microphone = TRUE, !.pipelines = @ + 1,
              !.isReceiving = TRUE, !.status = "receiving"]

\* startReceiving after getUserMedia rejected: the catch block
AfterMicDenied(s) ==
    [s EXCEPT !.micPending = @ - 1, !.status = "error"]

\* stopReceiving
StopReceiving(s) ==
    IF ~s.isReceiving THEN s
    ELSE [s EXCEPT !.pipelines = IF s.microphone THEN @ - 1 ELSE @,
                   !.microphone = FALSE,
                   !.isReceiving = FALSE,
                   !.status = "ready"]

FreeTimerIds(s) == s.timerIds \ {tm.id : tm \in s.timers}

Timer(id, kind, due) == [id |-> id, kind |-> kind, due |-> due]

\* startDiscovery at time t
StartDiscovery(s, t) ==
    LET s1  == StartReceiving(s)
        id1 == Min(FreeTimerIds(s))
        id2 == Min(FreeTimerIds(s) \ {id1})
        id3 == Min(FreeTimerIds(s) \ {id1, id2})
    IN  [s1 EXCEPT !.heartbeatInterval = id1,
                   !.discoveryInterval = id2,
                   !.timers = @ \cup {Timer(id1, "heartbeat", t + HeartbeatPeriod),
                                      Timer(id2, "sweep", t + SweepPeriod),
                                      Timer(id3, "discovery", t + DiscoveryDelay)}]

\* clearInterval(id); id 0 stands for null
ClearInterval(timers, id) == {tm \in timers : tm.id # id}

\* stopDiscovery
StopDiscovery(s) ==
    LET s1 == StopReceiving(s) IN
    [s1 EXCEPT !.timers = ClearInterval(ClearInterval(@, s.heartbeatInterval),
                                        s.discoveryInterval),
               !.heartbeatInterval = 0,
               !.discoveryInterval = 0]

\* sendHeartbeat
SendHeartbeat(s, c) == TransmitData(s, c, Heartbeat(s.myUserId))

\* sendDiscovery
SendDiscovery(s, c) == TransmitData(s, c, Discovery(s.myUserId))

CleanupExpiredUsers_Timeout15(s, t) ==
    LET expired == {u \in DOMAIN s.discoveredUsers :
                       t - s.discoveredUsers[u].lastSeen > 15}
    IN  [s EXCEPT !.discoveredUsers =
                      [u \in DOMAIN s.discoveredUsers \ expired |-> s.discoveredUsers[u]],
                  !.offlineLog = @ \cup expired]

\* cleanupExpiredUsers at time t; offlineLog holds the ids it has logged
CleanupExpiredUsers(s, t) ==
    LET expired == {u \in DOMAIN s.discoveredUsers :
                       t - s.discoveredUsers[u].lastSeen > ExpiryTimeout}
    IN  [s EXCEPT !.discoveredUsers =
                      [u \in DOMAIN s.discoveredUsers \ expired |-> s.discoveredUsers[u]],
                  !.offlineLog = @ \cup expired]

\* getDiscoveredUsers
GetDiscoveredUsers(s) == {s.discoveredUsers[u] : u \in DOMAIN s.discoveredUsers}

\* ChatManager.handleUserDetected, the onUserDetected callback
HandleUserDetected(s, userId, t) ==
    LET s1 == IF userId \in DOMAIN s.connectedUsers THEN s
              ELSE Raise(s, "onUserJoined")
    IN  [s1 EXCEPT !.connectedUsers =
            MapSet(@, userId, [userId |-> userId, lastSeen |-> t, isOnline |-> TRUE])]

HandleHeartbeat_NoSelfCheck(s, data, t) ==
    HandleUserDetected(
        [s EXCEPT !.discoveredUsers =
            MapSet(@, data.userId, [userId |-> data.userId, lastSeen |-> t])],
        data.userId, t)

\* handleHeartbeat
HandleHeartbeat(s, data, t) ==
    IF data.userId # s.myUserId
    THEN HandleUserDetected(
            [s EXCEPT !.discoveredUsers =
                MapSet(@, data.userId, [userId |-> data.userId, lastSeen |-> t])],
            data.userId, t)
    ELSE s

\* handleDiscovery
HandleDiscovery(s, data, t) == HandleHeartbeat(s, data, t)

\* ChatManager.handleIncomingData at time t, the onDataReceived callback:
\* no case of its switch matches a heartbeat, a discovery or an untyped
\* datagram
HandleIncomingData(s, data, t) ==
    CASE data.type = "chat"        -> HandleChatMessage(s, data)
      [] data.type = "invite"      -> HandleInvite(s, data)
      [] data.type = "join_room"   -> HandleJoinRoom(s, data, t)
      [] data.type = "leave_room"  -> HandleLeaveRoom(s, data)
      [] data.type = "room_update" -> HandleRoomUpdate(s, data)
      [] data.type = "private_key" -> HandlePrivateKey(s, data)
      [] OTHER -> s

\* handleMessage; UltrasonicComm.handleChatMessage and handleInvite raise
\* onDataReceived
HandleMessage(s, data, t) ==
    CASE data.type = "heartbeat" -> HandleHeartbeat(s, data, t)
      [] data.type = "discovery" -> HandleDiscovery(s, data, t)
      [] data.type = "chat"      -> HandleIncomingData(s, data, t)
      [] data.type = "invite"    -> HandleIncomingData(s, data, t)
      [] OTHER -> s

\* onDataReceived(data) throws: the private_key case above
OnDataReceivedThrows(s, data) ==
    data.type = "private_key" /\ data.roomId = "" /\ s.currentRoom = ""

\* handleReceivedPacket once JSON.parse has produced `data`; an exception
\* of onDataReceived skips handleMessage
HandleReceivedData(s, data, t) ==
    IF OnDataReceivedThrows(s, data)
    THEN HandleIncomingData(s, data, t)
    ELSE HandleMessage(HandleIncomingData(s, data, t), data, t)

CanStartDiscovery(s) ==
    /\ Cardinality(FreeTimerIds(s)) >= 3
    /\ \/ ~s.isInitialized
       \/ s.isReceiving
       \/ s.micPending + s.pipelines < MaxPipelines

DoStartDiscovery(d) ==
    /\ CanStartDiscovery(dev[d])
    /\ dev' = [dev EXCEPT ![d] = StartDiscovery(dev[d], now)]
    /\ lastOp' = Op("startDiscovery", d, NoData)
    /\ UNCHANGED <<air, now, scenario, stream, pos>>

DoStopDiscovery(d) ==
    /\ dev' = [dev EXCEPT ![d] = StopDiscovery(dev[d])]
    /\ lastOp' = Op("stopDiscovery", d, NoData)
    /\ UNCHANGED <<air, now, scenario, stream, pos>>

MicGranted(d) ==
    /\ dev[d].micPending > 0
    /\ dev' = [dev EXCEPT ![d] = AfterMicGranted(dev[d])]
    /\ lastOp' = Op("micGranted", d, NoData)
    /\ UNCHANGED <<air, now, scenario, stream, pos>>

MicDenied(d) ==
    /\ dev[d].micPending > 0
    /\ dev' = [dev EXCEPT ![d] = AfterMicDenied(dev[d])]
    /\ lastOp' = Op("micDenied", d, NoData)
    /\ UNCHANGED <<air, now, scenario, stream, pos>>

DueTimers(d, kind) == {tm \in dev[d].timers : tm.kind = kind /\ tm.due <= now}

Rearm(timers, tm, period) ==
    (timers \ {tm}) \cup {Timer(tm.id, tm.kind, tm.due + period)}

\* the heartbeat interval fires: sendHeartbeat
HeartbeatTimer(d) ==
    \E tm \in DueTimers(d, "heartbeat") :
        /\ FreeCalls(dev[d]) # {}
        /\ LET c     == Min(FreeCalls(dev[d]))
               after == SendHeartbeat(dev[d], c)
           IN  /\ dev' = [dev EXCEPT ![d] =
                            [after EXCEPT !.timers = Rearm(@, tm, HeartbeatPeriod)]]
               /\ air' = air \cup Played(d, dev[d], after, c)
        /\ lastOp' = Op("sendHeartbeat", d, Heartbeat(d))
        /\ UNCHANGED <<now, scenario, stream, pos>>

\* the one-shot timeout of startDiscovery fires: sendDiscovery
DiscoveryTimeout(d) ==
    \E tm \in DueTimers(d, "discovery") :
        /\ FreeCalls(dev[d]) # {}
        /\ LET c     == Min(FreeCalls(dev[d]))
               after == SendDiscovery(dev[d], c)
           IN  /\ dev' = [dev EXCEPT ![d] = [after EXCEPT !.timers = @ \ {tm}]]
               /\ air' = air \cup Played(d, dev[d], after, c)
        /\ lastOp' = Op("sendDiscovery", d, Discovery(d))
        /\ UNCHANGED <<now, scenario, stream, pos>>

\* the sweep interval fires: cleanupExpiredUsers
SweepTimer(d) ==
    \E tm \in DueTimers(d, "sweep") :
        /\ dev' = [dev EXCEPT ![d] =
                      [CleanupExpiredUsers(dev[d], now) EXCEPT
                          !.timers = Rearm(@, tm, SweepPeriod)]]
        /\ lastOp' = Op("cleanupExpiredUsers", d, NoData)
        /\ UNCHANGED <<air, now, scenario, stream, pos>>

\* the decoder of a listening device emits a frame that parses to `data`
ReceiveDatagram(d, data) ==
    /\ dev[d].pipelines > 0
    /\ dev' = [dev EXCEPT ![d] = HandleReceivedData(ClearRaised(dev[d]), data, now)]
    /\ lastOp' = Op("handleReceivedPacket", d, data)
    /\ UNCHANGED <<air, now, scenario, stream, pos>>

\* a frame in the air reaches device d; it is decoded if d still listens
Hear(d) ==
    \E m \in air :
        /\ m.to = d
        /\ air' = air \ {m}
        /\ dev' = [dev EXCEPT ![d] =
                      IF dev[d].pipelines > 0
                      THEN HandleReceivedData(ClearRaised(dev[d]), m.data, now)
                      ELSE dev[d]]
        /\ lastOp' = Op("hear", d, m.data)
        /\ UNCHANGED <<now, scenario, stream, pos>>

\* one second passes; timers fire when they are due
Tick(limit) ==
    /\ now < limit
    /\ \A d \in Devices : \A tm \in dev[d].timers : tm.due > now
    /\ now' = now + 1
    /\ lastOp' = Op("tick", "", NoData)
    /\ UNCHANGED <<dev, air, scenario, stream, pos>>

InitPeers ==
    /\ dev = [d \in Devices |-> NewDevice(d, "running")]
    /\ air = {}
    /\ now = 0
    /\ scenario = NoScenario
    /\ stream = <<>>
    /\ pos = 0
    /\ lastOp = Op("new", "B", NoData)

\* device B with discovery started and never stopped: its timers, its
\* microphone grant and the beacons it decodes
NextSweeping ==
    \/ InitComplete("B")
    \/ DoStartDiscovery("B")
    \/ MicGranted("B")
    \/ MicDenied("B")
    \/ HeartbeatTimer("B")
    \/ DiscoveryTimeout("B")
    \/ SweepTimer("B")
    \/ \E data \in Beacons : ReceiveDatagram("B", data)
    \/ Tick(MaxTime)

SpecSweeping == InitPeers /\ [][NextSweeping]_vars

\* the same, with stopDiscovery
NextPeers ==
    \/ NextSweeping
    \/ DoStopDiscovery("B")

SpecPeers == InitPeers /\ [][NextPeers]_vars

NextLink ==
    \/ \E d \in Devices : InitComplete(d)
    \/ \E d \in Devices : DoStartDiscovery(d)
    \/ \E d \in Devices : MicGranted(d)
    \/ \E d \in Devices : HeartbeatTimer(d)
    \/ \E d \in Devices : DiscoveryTimeout(d)
    \/ \E c \in CallIds : Transmit("A", c, Other(2))
    \/ \E c \in CallIds : PlaybackEnded("A", c)
    \/ \E d \in Devices : Hear(d)
    \/ Tick(LinkHorizon)

SpecLink == InitPeers /\ [][NextLink]_vars

(***************************************************************************)
(* Discovery and peer table: claims.                                       *)
(***************************************************************************)
\* device d has a call in progress other than the heartbeat it just sent
BusyWithOther(d) ==
    \E c \in CallIds :
        /\ dev[d].calls[c].pc \in {"resuming", "playing"}
        /\ dev[d].calls[c].data # Heartbeat(d)

\* C7: when A's heartbeat timer fires while A is free to send and B is
\* listening, A's heartbeat datagram is transmitted (it plays, and a frame
\* for B is in the air), and once B has heard it B's peer table has an
\* entry keyed by A's userId.
C7_HeartbeatDiscovery ==
    /\ ( /\ lastOp = Op("sendHeartbeat", "A", Heartbeat("A"))
         /\ dev["A"].isInitialized
         /\ ~BusyWithOther("A")
         /\ dev["B"].pipelines > 0 )
       => /\ \E c \in CallIds :
                /\ dev["A"].calls[c].pc = "playing"
                /\ dev["A"].calls[c].data = Heartbeat("A")
          /\ [from |-> "A", to |-> "B", data |-> Heartbeat("A")] \in air
    /\ lastOp = Op("hear", "B", Heartbeat("A")) /\ dev["B"].pipelines > 0
       => "A" \in DOMAIN dev["B"].discoveredUsers

\* C8: the peer table never has an entry keyed by the device's own userId,
\* and onUserDetected is never raised for it (connectedUsers, which the
\* callback fills, has no such entry either).
C8_NoSelfInPeerTable ==
    \A d \in Devices :
        /\ dev[d].myUserId \notin DOMAIN dev[d].discoveredUsers
        /\ dev[d].myUserId \notin DOMAIN dev[d].connectedUsers

\* C8 witness: B has just handled a heartbeat carrying its own userId
\* while another peer is in its table
C8_Witness ==
    /\ lastOp = Op("handleReceivedPacket", "B", Heartbeat("B"))
    /\ DOMAIN dev["B"].discoveredUsers = {"A"}

\* C9: right after a cleanupExpiredUsers sweep, getDiscoveredUsers()
\* returns no peer whose last heartbeat or discovery is more than 10 s old.
C9_ExpiryAfterSweep ==
    lastOp.op = "cleanupExpiredUsers" =>
        \A u \in GetDiscoveredUsers(dev[lastOp.dev]) :
            now - u.lastSeen <= ExpiryTimeout

\* C9 witness: a sweep has just run and a peer that has been silent for
\* more than 10 s is gone from the snapshot
C9_Witness ==
    /\ lastOp = Op("cleanupExpiredUsers", "B", NoData)
    /\ "A" \in dev["B"].offlineLog
    /\ "A" \in DOMAIN dev["B"].connectedUsers
    /\ now - dev["B"].connectedUsers["A"].lastSeen > ExpiryTimeout
    /\ "A" \notin {u.userId : u \in GetDiscoveredUsers(dev["B"])}

\* C10: getDiscoveredUsers() never returns a peer whose lastSeen is more
\* than 10 s in the past.
C10_SnapshotFresh ==
    \A d \in Devices :
        \A u \in GetDiscoveredUsers(dev[d]) : now - u.lastSeen <= ExpiryTimeout

(***************************************************************************)
(* Chat session: the operations the application calls.                     *)
(***************************************************************************)
\* what follows `await transmitData(...)` in caller `then`, holding room
\* object `room`
Continue(s, then, room) ==
    CASE then = "createOrJoinRoom"  -> NotifyRoom(s, RoomStateOf(s, room))
      [] then = "acceptInvite"      -> NotifyRoom(s, RoomStateOf(s, room))
      [] then = "togglePrivacyMode" ->
            LET s1 == AddSystemMessage(s, "private mode", "")
            IN  NotifyRoom(s1, CurrentRoomState(s1))
      [] then = "leaveRoom" ->
            LET s1 == [s EXCEPT !.currentRoom = "", !.isPrivateMode = FALSE,
                                !.encryptionKey = <<>>, !.lastToggle = "none"]
                s2 == IF s.currentRoom = "" THEN s1 ELSE Transition(s1, NullRoom)
            IN  NotifyRoom(s2, NullRoom)
      [] OTHER -> s

\* `await this.ultrasonicComm.transmitData(data)` in a ChatManager method:
\* when transmitData returns without waiting for the audio context or a
\* tone, the caller goes on before any other event is handled
Await(s, c, data, then, room) ==
    LET s1 == TransmitData(s, c, data) IN
    IF s1.calls[c].pc = "returned"
    THEN Continue(s1, then, room)
    ELSE [s1 EXCEPT !.pending[c] = [then |-> then, room |-> room]]

\* the call's wait is over: its caller goes on
Settle(s, c) ==
    IF s.calls[c].pc = "returned"
    THEN Continue([s EXCEPT !.pending[c] = NoThen],
                  s.pending[c].then, s.pending[c].room)
    ELSE s

\* createOrJoinRoom(roomId, isPrivate); key is generateEncryptionKey()
CreateOrJoinRoom(s, c, roomId, isPrivate, key) ==
    LET room == Room(roomId, isPrivate, {s.myUserId}, s.myUserId,
                     IF isPrivate THEN key ELSE <<>>)
        s1 == [s EXCEPT !.rooms = MapSet(@, roomId, room),
                        !.currentRoom = roomId,
                        !.isPrivateMode = isPrivate,
                        !.encryptionKey = IF isPrivate THEN key ELSE @,
                        !.lastToggle = "none"]
        s2 == Transition(s1, RoomState(roomId, isPrivate))
    IN  IF isPrivate
        THEN Continue(s2, "createOrJoinRoom", roomId)
        ELSE Await(s2, c, RoomUpdateData(roomId, FALSE, s.myUserId),
                   "createOrJoinRoom", roomId)

\* acceptInvite(inviteData)
AcceptInvite(s, c, invite) ==
    LET room == Room(invite.roomId, invite.isPrivate, {s.myUserId},
                     invite.fromUserId, invite.encryptionKey)
        s1 == [s EXCEPT !.rooms = MapSet(@, room.id, room),
                        !.currentRoom = room.id,
                        !.isPrivateMode = room.isPrivate,
                        !.encryptionKey = IF room.isPrivate THEN room.encryptionKey ELSE @,
                        !.lastToggle = "none"]
        s2 == Transition(s1, RoomState(room.id, room.isPrivate))
    IN  Await(s2, c, JoinRoomData(s.myUserId, room.id), "acceptInvite", room.id)

\* the chat frame sendMessage builds for `content`
ChatFrame_Cleartext(s, content, messageId) ==
    ChatData(s.currentRoom, s.myUserId, messageId, content, FALSE)

ChatFrame(s, content, messageId) ==
    ChatData(s.currentRoom, s.myUserId, messageId,
             IF s.isPrivateMode /\ s.encryptionKey # <<>>
             THEN EncryptMessage(content, s.encryptionKey)
             ELSE content,
             s.isPrivateMode)

\* sendMessage(content) with a current room; messageId is generateMessageId()
SendMessage(s, c, content, messageId) ==
    LET message == ChatFrame(s, content, messageId)
        s1 == AddMessage(s, Message("chat", messageId, s.myUserId, content,
                                    "", "", TRUE))
    IN  Await(s1, c, message, "sendMessage", "")

\* togglePrivacyMode(); key is generateEncryptionKey()
TogglePrivacyMode(s, c, key) ==
    IF s.currentRoom = "" THEN s
    ELSE IF ~s.isPrivateMode
    THEN LET s1 == [s EXCEPT !.isPrivateMode = TRUE,
                             !.rooms[s.currentRoom].isPrivate = TRUE,
                             !.encryptionKey = key,
                             !.rooms[s.currentRoom].encryptionKey = key,
                             !.lastToggle = "private"]
             s2 == Transition(s1, CurrentRoomState(s1))
         IN  IF key = <<>>
             THEN Continue(s2, "togglePrivacyMode", "")
             ELSE Await(s2, c, PrivateKeyData(s.currentRoom, key, s.myUserId),
                        "togglePrivacyMode", "")
    ELSE LET s1 == [s EXCEPT !.isPrivateMode = FALSE,
                             !.rooms[s.currentRoom].isPrivate = FALSE,
                             !.encryptionKey = <<>>,
                             !.rooms[s.currentRoom].encryptionKey = <<>>,
                             !.lastToggle = "public"]
             s2 == AddSystemMessage(Transition(s1, CurrentRoomState(s1)),
                                    "public mode", "")
         IN  NotifyRoom(s2, CurrentRoomState(s2))

\* leaveRoom()
LeaveRoom(s, c) ==
    IF s.currentRoom = "" THEN s
    ELSE Await(s, c, LeaveRoomData(s.myUserId, s.currentRoom), "leaveRoom", "")

\* room objects held by callers waiting in transmitData
HeldRooms(s) == {s.pending[c].room : c \in CallIds \ FreeCalls(s)}

\* an operation of the application on device d: `after` is the device
\* once the operation has run up to its first wait, on call slot c
LocalOp(d, c, after, name, arg) ==
    /\ Len(after.messageHistory) <= MaxHistory
    /\ dev' = [dev EXCEPT ![d] = after]
    /\ air' = air \cup Played(d, dev[d], after, c)
    /\ lastOp' = Op(name, d, arg)
    /\ UNCHANGED <<now, scenario, stream, pos>>

DoCreateOrJoinRoom(d, roomId, isPrivate, key) ==
    /\ FreeCalls(dev[d]) # {}
    /\ roomId \notin HeldRooms(dev[d])
    /\ LET c == Min(FreeCalls(dev[d])) IN
       LocalOp(d, c, CreateOrJoinRoom(ClearRaised(dev[d]), c, roomId, isPrivate, key),
               "createOrJoinRoom", RoomUpdateData(roomId, isPrivate, d))

DoAcceptInvite(d, invite) ==
    /\ FreeCalls(dev[d]) # {}
    /\ invite.roomId \notin HeldRooms(dev[d])
    /\ LET c == Min(FreeCalls(dev[d])) IN
       LocalOp(d, c, AcceptInvite(ClearRaised(dev[d]), c, invite),
               "acceptInvite", invite)

\* sendMessage(content): it throws without a current room
DoSendMessage(d, content, messageId) ==
    /\ FreeCalls(dev[d]) # {}
    /\ LET c == Min(FreeCalls(dev[d])) IN
       IF dev[d].currentRoom = ""
       THEN LocalOp(d, c, ClearRaised(dev[d]), "sendMessage threw", NoData)
       ELSE LocalOp(d, c, SendMessage(ClearRaised(dev[d]), c, content, messageId),
                    "sendMessage", ChatFrame(dev[d], content, messageId))

DoTogglePrivacyMode(d, key) ==
    /\ FreeCalls(dev[d]) # {}
    /\ LET c == Min(FreeCalls(dev[d])) IN
       LocalOp(d, c, TogglePrivacyMode(ClearRaised(dev[d]), c, key),
               "togglePrivacyMode", NoData)

\* leaveRoom(); the argument recorded is the leave_room datagram it sends,
\* none when there is no current room
DoLeaveRoom(d) ==
    /\ FreeCalls(dev[d]) # {}
    /\ LET c == Min(FreeCalls(dev[d])) IN
       LocalOp(d, c, LeaveRoom(ClearRaised(dev[d]), c), "leaveRoom",
               IF dev[d].currentRoom = "" THEN NoData
               ELSE LeaveRoomData(d, dev[d].currentRoom))

\* audioContext.resume() resolves for a waiting call of a ChatManager
\* method: transmitData goes on, and the method after it
CallResumed(d, c) ==
    /\ dev[d].calls[c].pc = "resuming"
    /\ LocalOp(d, c, Settle(AfterResume(ClearRaised(dev[d]), c), c),
               "resumed", dev[d].calls[c].data)

\* the key generateEncryptionKey() returns, and the key peers distribute
OwnKey == <<107>>
PeerKey == <<49>>

\* the text the user sends: "hi"
ChatText == <<104, 105>>

\* the invite device d accepts, to the public room
Invite(d) == InviteData("B", d, OwnRoom, FALSE, <<>>)

\* the chat-session datagrams a decoder can hand to device d: for its room
\* from the peer and from itself, for another room, for another addressee
ChatDatagrams(d) ==
    LET Senders == {<<OwnRoom, "B">>, <<OwnRoom, d>>, <<"Q", "B">>} IN
         {ChatData(x[1], x[2], m, ChatText, FALSE) : x \in Senders, m \in MessageIds}
    \cup {ChatData(OwnRoom, "B", m, EncryptMessage(ChatText, PeerKey), TRUE) :
             m \in MessageIds}
    \cup {Invite(d), Invite("B"), InviteData("B", d, "Q", TRUE, PeerKey)}
    \cup {JoinRoomData(x[2], x[1]) : x \in Senders}
    \cup {LeaveRoomData(x[2], x[1]) : x \in Senders}
    \cup {RoomUpdateData("Q", FALSE, "B")}
    \cup {PrivateKeyData(x[1], IF x[2] = d THEN OwnKey ELSE PeerKey, x[2]) :
             x \in Senders}
    \cup {BarePrivateKey}

\* a decoded chat-session datagram is handled by device d
ReceiveChat(d, data) ==
    /\ ReceiveDatagram(d, data)
    /\ Len(dev'[d].messageHistory) <= MaxHistory

\* room operations of the application on device A, whose audio context
\* may still be suspended
NextRoom ==
    \/ InitComplete("A")
    \/ \E p \in BOOLEAN : DoCreateOrJoinRoom("A", OwnRoom, p, OwnKey)
    \/ DoAcceptInvite("A", Invite("A"))
    \/ DoSendMessage("A", ChatText, 1)
    \/ DoTogglePrivacyMode("A", OwnKey)
    \/ DoLeaveRoom("A")
    \/ \E c \in CallIds : CallResumed("A", c)

SpecRoom == InitTx /\ [][NextRoom]_vars

\* device A after init(), startDiscovery() and the microphone grant
Listening(d) ==
    AfterMicGranted(StartDiscovery([NewDevice(d, "running") EXCEPT
                                       !.isInitialized = TRUE, !.status = "ready"],
                                   0))

InitSession ==
    /\ dev = [d \in Devices |-> IF d = "A" THEN Listening(d) ELSE NewDevice(d, "running")]
    /\ air = {}
    /\ now = 0
    /\ scenario = NoScenario
    /\ stream = <<>>
    /\ pos = 0
    /\ lastOp = Op("micGranted", "A", NoData)

\* device A listening: it creates and leaves its room, and handles the
\* chat-session datagrams it decodes
NextSession ==
    \/ \E p \in BOOLEAN : DoCreateOrJoinRoom("A", OwnRoom, p, OwnKey)
    \/ DoLeaveRoom("A")
    \/ \E data \in ChatDatagrams("A") : ReceiveChat("A", data)

SpecSession == InitSession /\ [][NextSession]_vars

(***************************************************************************)
(* Chat session: claims.                                                   *)
(***************************************************************************)
\* callback cb is among the callbacks in `raised`
Has(raised, cb) == \E i \in DOMAIN raised : raised[i] = cb

\* C11: a chat frame built by sendMessage after togglePrivacyMode switched
\* the room to private has isEncrypted = true and the XOR-obfuscated text,
\* not the cleartext, as content; after togglePrivacyMode switched it to
\* public the frame has isEncrypted = false and the cleartext as content.
C11_PrivacyOfChatFrames ==
    lastOp.op = "sendMessage" =>
        LET s     == dev[lastOp.dev]
            frame == lastOp.arg
            text  == s.messageHistory[Len(s.messageHistory)].content
        IN  /\ s.lastToggle = "private" =>
                  /\ frame.isEncrypted
                  /\ frame.content = EncryptMessage(text, s.encryptionKey)
                  /\ frame.content # text
            /\ s.lastToggle = "public" =>
                  /\ ~frame.isEncrypted
                  /\ frame.content = text

\* C11 witness: "hi" has just been sent in the room togglePrivacyMode made
\* private under the key "k"; the frame carries "0302"
C11_Witness ==
    /\ lastOp.op = "sendMessage"
    /\ dev["A"].lastToggle = "private"
    /\ dev["A"].encryptionKey = OwnKey
    /\ lastOp.arg.isEncrypted
    /\ lastOp.arg.content = <<48, 51, 48, 50>>

\* C13: whenever currentRoom is non-null, its members contain the device's
\* own userId.
C13_SelfIsMember ==
    \A d \in Devices :
        dev[d].currentRoom # "" =>
            dev[d].myUserId \in dev[d].rooms[dev[d].currentRoom].members

\* no ChatManager method of device d is waiting in transmitData
Quiescent(d) == FreeCalls(dev[d]) = CallIds

\* C14: every transition of the room state is followed by one
\* onRoomStateChanged carrying the resulting state: once no method is
\* waiting, every transition's result has been carried by a notification
\* and the last notification carries the current state (null when idle);
\* togglePrivacyMode and leaveRoom called without a room notify nothing.
C14_RoomStateNotified ==
    /\ \A d \in Devices :
          Quiescent(d) =>
              /\ dev[d].unnotified = <<>>
              /\ dev[d].roomNotified = CurrentRoomState(dev[d])
    /\ ( lastOp.op = "togglePrivacyMode" /\ dev[lastOp.dev].currentRoom = "" )
          => dev[lastOp.dev].raised = <<>>
    /\ ( lastOp.op = "leaveRoom" /\ lastOp.arg = NoData )
          => dev[lastOp.dev].raised = <<>>

\* the session state of a device
SessionState(s) ==
    [isPrivate      |-> IF s.currentRoom = "" THEN FALSE
                        ELSE s.rooms[s.currentRoom].isPrivate,
     isPrivateMode  |-> s.isPrivateMode,
     encryptionKey  |-> s.encryptionKey,
     messageHistory |-> s.messageHistory]

\* C15: handling a received chat or private_key datagram whose fromUserId
\* is the device's own userId changes no session state and raises no
\* callback.
C15_SelfOriginatedDropped ==
    [][ ( /\ lastOp'.op = "handleReceivedPacket"
          /\ lastOp'.arg.type \in {"chat", "private_key"}
          /\ lastOp'.arg.fromUserId = dev[lastOp'.dev].myUserId )
        => /\ SessionState(dev'[lastOp'.dev]) = SessionState(dev[lastOp'.dev])
           /\ dev'[lastOp'.dev].raised = <<>> ]_vars

\* what the room filter protects
FilteredState(s) ==
    [rooms          |-> s.rooms,
     connectedUsers |-> s.connectedUsers,
     isPrivateMode  |-> s.isPrivateMode,
     encryptionKey  |-> s.encryptionKey,
     messageHistory |-> s.messageHistory]

\* C16: handling a received chat, join_room, leave_room or private_key
\* datagram whose roomId is not currentRoom.id, or that arrives while there
\* is no current room, changes no members, connectedUsers, isPrivateMode,
\* encryptionKey or messageHistory and raises no callback.
C16_RoomFilter ==
    [][ ( /\ lastOp'.op = "handleReceivedPacket"
          /\ lastOp'.arg.type \in {"chat", "join_room", "leave_room", "private_key"}
          /\ \/ dev[lastOp'.dev].currentRoom = ""
             \/ lastOp'.arg.roomId # dev[lastOp'.dev].currentRoom )
        => /\ FilteredState(dev'[lastOp'.dev]) = FilteredState(dev[lastOp'.dev])
           /\ dev'[lastOp'.dev].raised = <<>> ]_vars

\* C17: the message history holds at most one received chat message per
\* messageId (all frames of the model arrive within the 60 s window).
C17_ChatDeliveredOnce ==
    \A d \in Devices, m \in MessageIds :
        Cardinality({i \in DOMAIN dev[d].messageHistory :
                        /\ dev[d].messageHistory[i].type = "chat"
                        /\ ~dev[d].messageHistory[i].isOwn
                        /\ dev[d].messageHistory[i].messageId = m}) <= 1

\* C18: handling a received datagram raises onInviteReceived only for an
\* invite whose toUserId is the device's own userId; an invite addressed to
\* another userId raises no callback and changes no state.
C18_InviteAddressing ==
    [][ lastOp'.op = "handleReceivedPacket" =>
          LET d    == lastOp'.dev
              data == lastOp'.arg
          IN  /\ Has(dev'[d].raised, "onInviteReceived") =>
                    data.type = "invite" /\ data.toUserId = dev[d].myUserId
              /\ ( data.type = "invite" /\ data.toUserId # dev[d].myUserId )
                    => dev'[d] = ClearRaised(dev[d]) ]_vars

\* C18 witness: device A, in its room, has just handled an invite addressed
\* to B and raised nothing
C18_Witness ==
    /\ lastOp = Op("handleReceivedPacket", "A", Invite("B"))
    /\ dev["A"].currentRoom = OwnRoom
    /\ dev["A"].raised = <<>>

\* the system message announcing that user u joined
JoinedMessage(u) == Message("system", 0, "", <<>>, "joined", u, FALSE)

\* C19: while A is in room R, handling a join_room datagram for R from B
\* adds B to R.members and appends exactly one system message announcing
\* that B joined to the message history.
C19_JoinHandling ==
    [][ ( /\ lastOp' = Op("handleReceivedPacket", "A", JoinRoomData("B", OwnRoom))
          /\ dev["A"].currentRoom = OwnRoom )
        => /\ dev'["A"].rooms[OwnRoom].members =
                 dev["A"].rooms[OwnRoom].members \cup {"B"}
           /\ dev'["A"].messageHistory =
                 Append(dev["A"].messageHistory, JoinedMessage("B")) ]_vars

\* C19 witness (S2): A has just handled B's join_room for its room; the
\* members are {A, B} and the history is the one system message
C19_Witness ==
    /\ lastOp = Op("handleReceivedPacket", "A", JoinRoomData("B", OwnRoom))
    /\ dev["A"].currentRoom = OwnRoom
    /\ dev["A"].rooms[OwnRoom].members = {"A", "B"}
    /\ dev["A"].messageHistory = <<JoinedMessage("B")>>

(***************************************************************************)
(* Obfuscation cipher: the round trip.                                     *)
(***************************************************************************)
\* the cipher applied to message p1 under key p2
CipherCase(m, k) == Scenario("cipher", m, k, <<>>, <<>>, 0, 0, <<>>)

\* encryptMessage(m, k)
DoEncrypt ==
    /\ scenario.kind = "cipher"
    /\ pos = 0
    /\ stream' = EncryptMessage(scenario.p1, scenario.p2)
    /\ pos' = 1
    /\ lastOp' = Op("encryptMessage", "A", NoData)
    /\ UNCHANGED <<dev, air, now, scenario>>

\* decryptMessage(c, k) on the result of encryptMessage
DoDecrypt ==
    /\ scenario.kind = "cipher"
    /\ pos = 1
    /\ LET r == DecryptMessage(stream, scenario.p2) IN
          /\ stream' = r.text
          /\ lastOp' = Op(IF r.ok THEN "decryptMessage" ELSE "decryptMessage threw",
                          "A", NoData)
    /\ pos' = 2
    /\ UNCHANGED <<dev, air, now, scenario>>

InitCipher ==
    /\ dev = [d \in Devices |-> NewDevice(d, "running")]
    /\ air = {}
    /\ now = 0
    /\ scenario \in {CipherCase(m, k) : m \in Texts, k \in Keys}
    /\ stream = <<>>
    /\ pos = 0
    /\ lastOp = Op("new", "A", NoData)

NextCipher == DoEncrypt \/ DoDecrypt

SpecCipher == InitCipher /\ [][NextCipher]_vars

\* C12: for every message m, the empty one included, and every non-empty
\* key k, encryptMessage(m, k) is the lowercase hex text of the XORed bytes
\* ("hi" under "k" gives "0302") and decryptMessage of it under k returns m.
C12_CipherRoundTrip ==
    /\ ( pos = 1 /\ scenario = CipherCase(<<104, 105>>, <<107>>) )
          => stream = <<48, 51, 48, 50>>
    /\ pos = 2 => lastOp.op = "decryptMessage" /\ stream = scenario.p1

(***************************************************************************)
(* Background sends: claims.                                               *)
(***************************************************************************)
\* a frame other than `data` is being played by device d
InFlightOther(d, data) ==
    \E c \in CallIds :
        dev[d].calls[c].pc = "playing" /\ dev[d].calls[c].data # data

\* C20: a heartbeat or discovery send attempted by a timer while another
\* frame is in flight is not dropped: its transmitData call is still in
\* progress (waiting to transmit) after the attempt.
C20_BackgroundSendQueued ==
    ( /\ lastOp.op \in {"sendHeartbeat", "sendDiscovery"}
      /\ InFlightOther(lastOp.dev, lastOp.arg) )
    => \E c \in CallIds :
          /\ dev[lastOp.dev].calls[c].data = lastOp.arg
          /\ dev[lastOp.dev].calls[c].pc \notin {"idle", "returned"}

(***************************************************************************)
(* Foreground sends: claims.                                               *)
(***************************************************************************)
\* what the promise of sendMessage settles with once transmitData, on call
\* slot c, has returned: `return message`, whatever transmitData returned
SendMessageResult(s, c) == [resolved |-> TRUE, message |-> s.calls[c].data]

\* the message history of s shows an own chat message with this id
ShownAsSent(s, messageId) ==
    \E i \in DOMAIN s.messageHistory :
        /\ s.messageHistory[i].type = "chat"
        /\ s.messageHistory[i].isOwn
        /\ s.messageHistory[i].messageId = messageId

\* C21: when the transmitData call of sendMessage has returned false (busy,
\* or the datagram exceeds 32 bytes), sendMessage does not complete as a
\* success and the message is not in the history as an own, sent message.
C21_FailedSendReported ==
    ( lastOp.op \in {"sendMessage", "resumed"} /\ lastOp.arg.type = "chat" ) =>
        \A c \in CallIds :
            LET s == dev[lastOp.dev] IN
            ( /\ s.calls[c].data = lastOp.arg
              /\ s.calls[c].pc = "returned"
              /\ ~s.calls[c].ok )
            => /\ ~SendMessageResult(s, c).resolved
               /\ ~ShownAsSent(s, lastOp.arg.messageId)

(***************************************************************************)
(* Stopping discovery: claims.                                             *)
(***************************************************************************)
\* stopDiscovery has returned on s and startDiscovery has not been called
\* since (or was never called): startDiscovery always stores a timer id
Stopped(s) == s.heartbeatInterval = 0

\* C22: while discovery is stopped, no sendHeartbeat or sendDiscovery gets
\* past the guard of transmitData to `isTransmitting = true` and the status
\* 'transmitting': no beacon begins transmission.
C22_StopCancelsSending ==
    [][ \A d \in Devices :
          ( /\ lastOp'.op \in {"sendHeartbeat", "sendDiscovery"}
            /\ lastOp'.dev = d
            /\ dev[d].isInitialized
            /\ ~dev[d].isTransmitting )
          => ~Stopped(dev[d]) ]_vars

\* C23: while discovery is stopped the capture pipeline is released:
\* isReceiving is false and no microphone source is connected.
C23_StopReleasesCapture ==
    \A d \in Devices :
        Stopped(dev[d]) =>
            /\ ~dev[d].isReceiving
            /\ ~dev[d].microphone
            /\ dev[d].pipelines = 0

(***************************************************************************)
(* Undecryptable chat messages: claims.                                    *)
(***************************************************************************)
\* the encrypted chat frame the peer sends to the room of device A
EncryptedChat == ChatData(OwnRoom, "B", 1, EncryptMessage(ChatText, PeerKey), TRUE)

\* the message shown for it by a device that holds no key: the placeholder
\* text '[加密消息 - 无解密密钥]' in place of the content
PlaceholderMessage(data) ==
    Message("chat", data.messageId, data.fromUserId, <<>>, "no key", "", FALSE)

\* C24: a chat datagram for the current room from another user with
\* isEncrypted = true, handled while the device holds no encryption key, is
\* appended to messageHistory as a message carrying the placeholder instead
\* of its content, and onMessageReceived is raised for it.
C24_UndecryptableSurfaced ==
    [][ \A d \in Devices :
          ( /\ lastOp'.op = "handleReceivedPacket"
            /\ lastOp'.dev = d
            /\ lastOp'.arg.type = "chat"
            /\ lastOp'.arg.isEncrypted
            /\ dev[d].currentRoom # ""
            /\ lastOp'.arg.roomId = dev[d].currentRoom
            /\ lastOp'.arg.fromUserId # dev[d].myUserId
            /\ dev[d].encryptionKey = <<>> )
          => /\ Len(dev'[d].messageHistory) > Len(dev[d].messageHistory)
             /\ \A i \in DOMAIN dev'[d].messageHistory :
                   IF i <= Len(dev[d].messageHistory)
                   THEN dev'[d].messageHistory[i] = dev[d].messageHistory[i]
                   ELSE dev'[d].messageHistory[i] = PlaceholderMessage(lastOp'.arg)
             /\ Has(dev'[d].raised, "onMessageReceived") ]_vars

\* C24 witness: A, in its public room and without a key, has just handled
\* the peer's encrypted chat frame; the history shows the placeholder
C24_Witness ==
    /\ lastOp = Op("handleReceivedPacket", "A", EncryptedChat)
    /\ dev["A"].currentRoom = OwnRoom
    /\ dev["A"].encryptionKey = <<>>
    /\ Len(dev["A"].messageHistory) > 0
    /\ dev["A"].messageHistory[1] = PlaceholderMessage(EncryptedChat)
    /\ Has(dev["A"].raised, "onMessageReceived")

(***************************************************************************)
(* Frame codec: trimming of the bit buffer.                                *)
(***************************************************************************)
\* n bits of value 0: no header can be matched in them
Zeros(n) == [i \in 1..n |-> 0]

\* the longest payload a frame carries: a frame of 336 bits
Body32 == [i \in 1..maxPayloadLength |-> 123]

\* idle bits ahead of the frame
TrimJunkLengths == {672, 1000, MaxTrimJunk}

\* a run of idle bits followed by one frame, delivered without gaps
TrimScenarios ==
    {Scenario("trim", p, <<>>, Zeros(j), <<>>, 0, 0, <<>>) :
        p \in {<<123>>, Body32}, j \in TrimJunkLengths}

InitTrim ==
    /\ dev = [d \in Devices |-> NewDevice(d, "running")]
    /\ air = {}
    /\ now = 0
    /\ scenario \in TrimScenarios
    /\ stream = Stream(scenario)
    /\ pos = 0
    /\ lastOp = Op("new", "B", NoData)

SpecTrim == InitTrim /\ [][NextCodec]_vars

\* C29: after every processBit call the bit buffer holds at most 1000 bits.
C29_BitBufferCap ==
    \A d \in Devices : Len(dev[d].bitBuffer) <= BufferCap

\* C29 witness: the 1001st bit of a stream without a frame so far has just
\* been processed and the buffer has been cut to its last 500 bits
C29_Witness ==
    /\ scenario.kind = "trim"
    /\ pos = BufferCap + 1
    /\ rx = <<>>
    /\ Len(dev["B"].bitBuffer) = BufferKeep

\* C30: as long as no packet has been emitted, the bits dropped from the
\* buffer by trimming are a multiple of 8; and a frame behind a run of idle
\* bits whose length is a multiple of 8 is emitted once its last bit has
\* arrived, whether or not the buffer was trimmed while it was arriving.
C30_TrimKeepsAlignment ==
    scenario.kind = "trim" =>
        /\ rx = <<>> => (pos - Len(dev["B"].bitBuffer)) % 8 = 0
        /\ ( StreamDone /\ Len(scenario.junk1) % 8 = 0 ) => rx = <<scenario.p1>>

(***************************************************************************)
(* Tone detector: UltrasonicProcessor (AudioWorklet) and the AnalyserNode  *)
(* fallback.  Audio time is counted in sample frames: a time of t seconds  *)
(* is t * sampleRate frames.  Goertzel magnitudes are counted in           *)
(* thousandths of full scale, analyser powers in dB.                       *)
(***************************************************************************)
\* generateTone: Math.floor(bitDuration * sampleRate) samples per bit; also
\* UltrasonicProcessor.bitDuration = sampleRate / bitRate
SamplesPerBit(mode) == sampleRate \div Config(mode).bitRate

\* `currentTime - this.lastBitTime > this.bitDuration * 0.8` with times in
\* seconds and bitDuration in samples: the time difference, in frames,
\* must exceed bitDuration * 0.8 * sampleRate
SuppressFrames(mode) == 8 * SamplesPerBit(mode) * (sampleRate \div 10)

\* a bit event reaches processBit: the port message of the worklet, or the
\* call in detectLoop; the timestamp is in seconds, processBit is modelled
\* in milliseconds
PostBit(s, bit) ==
    [ProcessBit(s, bit, s.currentFrame \div (sampleRate \div 1000)) EXCEPT
        !.posted = Append(@, [bit |-> bit, frame |-> s.currentFrame])]

\* UltrasonicProcessor.detectFrequency with goertzel results result0, result1
DetectFrequency(s, result0, result1) ==
    IF result0 > WorkletThreshold \/ result1 > WorkletThreshold
    THEN LET bit == IF result1 > result0 THEN 1 ELSE 0 IN
         IF s.currentFrame - s.processorLastBit > SuppressFrames(s.currentMode)
         THEN PostBit([s EXCEPT !.processorLastBit = s.currentFrame], bit)
         ELSE s
    ELSE s

\* one run of detectLoop (startFallbackReceiver) with analyser powers
\* dataArray[bin0], dataArray[bin1]
DetectLoop(s, power0, power1) ==
    IF ~s.isReceiving THEN s
    ELSE IF power0 > FallbackThreshold \/ power1 > FallbackThreshold
    THEN PostBit(s, IF power1 > power0 THEN 1 ELSE 0)
    ELSE s

\* samples that [a1, a2) and [b1, b2) have in common
Overlap(a1, a2, b1, b2) ==
    LET lo == IF a1 > b1 THEN a1 ELSE b1
        hi == IF a2 < b2 THEN a2 ELSE b2
    IN  IF hi > lo THEN hi - lo ELSE 0

\* generateTone(bits): bit i fills samples (i-1) * samplesPerBit up to
\* i * samplesPerBit with its tone (freq1 for 1, freq0 for 0).  The number
\* of samples carrying the tone of bit value v among the k-th 4096 samples
\* of the buffer
ToneSamples(bits, mode, k, v) ==
    LET spb == SamplesPerBit(mode)
        In(i) == IF bits[i] = v
                 THEN Overlap((i - 1) * spb, i * spb, (k - 1) * bufferSize, k * bufferSize)
                 ELSE 0
        RECURSIVE Sum(_)
        Sum(i) == IF i = 0 THEN 0 ELSE In(i) + Sum(i - 1)
    IN  Sum(Len(bits))

\* UltrasonicProcessor.goertzel at the frequency of bit value v over the
\* k-th window of the rendered buffer: a tone of amplitude `volume`
\* present in n of the 4096 samples gives volume / 2 * n / 4096 (the two
\* tones are 51 bins apart; leakage between them is left out)
Goertzel(bits, mode, k, v) == (ToneLevel * ToneSamples(bits, mode, k, v)) \div bufferSize

\* UltrasonicProcessor.process: detectFrequency runs each time 4096 samples
\* have been buffered; the last samples of the buffer are decided on once
\* the silence after them has filled the window
NumWindows(bits, mode) == (Len(bits) * SamplesPerBit(mode) + bufferSize - 1) \div bufferSize

\* the bits handed to processBit so far
PostedBits(s) == [i \in 1..Len(s.posted) |-> s.posted[i].bit]

(***************************************************************************)
(* Modem scenarios: a bit vector rendered by generateTone and fed to the   *)
(* worklet detector of device B.                                           *)
(***************************************************************************)
BitVectors == SeqsUpTo({0, 1}, MaxBits)

ModemCase(b) == Scenario("modem", b, <<>>, <<>>, <<>>, 0, 0, <<>>)

\* the audio clock when the first sample arrives: a context just created,
\* and one that has been running for more than an hour
StartFrames == {0, 200000000}

Modes == {"high", "low"}

\* device d listening in `mode`, its audio clock at `start`
Receiver(d, mode, worklet, start) ==
    [Listening(d) EXCEPT !.currentMode = mode, !.hasWorklet = worklet,
                         !.currentFrame = start]

\* the next 4096 samples of the rendered buffer have reached the processor
ModemWindow(d) ==
    /\ scenario.kind = "modem"
    /\ pos < NumWindows(scenario.p1, dev[d].currentMode)
    /\ LET s1 == [dev[d] EXCEPT !.currentFrame = @ + bufferSize] IN
       dev' = [dev EXCEPT ![d] =
                  DetectFrequency(s1,
                      Goertzel(scenario.p1, s1.currentMode, pos + 1, 0),
                      Goertzel(scenario.p1, s1.currentMode, pos + 1, 1))]
    /\ pos' = pos + 1
    /\ lastOp' = Op("process", d, NoData)
    /\ UNCHANGED <<air, now, scenario, stream>>

InitModem ==
    /\ \E mode \in Modes, start \in StartFrames :
          dev = [d \in Devices |-> IF d = "B" THEN Receiver(d, mode, TRUE, start)
                                   ELSE NewDevice(d, "running")]
    /\ air = {}
    /\ now = 0
    /\ scenario \in {ModemCase(b) : b \in BitVectors}
    /\ stream = scenario.p1
    /\ pos = 0
    /\ lastOp = Op("generateTone", "A", NoData)

NextModem == ModemWindow("B")

SpecModem == InitModem /\ [][NextModem]_vars

\* C25: once the whole buffer rendered for bit vector b has been through
\* the detector of the same profile, the bits handed to processBit are
\* exactly b.
C25_ModemRoundTrip ==
    ( /\ scenario.kind = "modem"
      /\ pos = NumWindows(scenario.p1, dev["B"].currentMode) )
    => PostedBits(dev["B"]) = scenario.p1

(***************************************************************************)
(* Detector scenarios: runs of the detector with any energies.             *)
(***************************************************************************)
\* requestAnimationFrame at 60 Hz, in sample frames
AnimationFrame == sampleRate \div 60

\* time between two runs of the detector
DetectorGaps(s) ==
    IF s.hasWorklet THEN {bufferSize, 2 * bufferSize}
    ELSE {AnimationFrame, bufferSize}

\* the threshold of the path in use
Threshold(s) == IF s.hasWorklet THEN WorkletThreshold ELSE FallbackThreshold

\* energies at f0 and f1: at or below the threshold, above it, well above it
Levels(s) ==
    IF s.hasWorklet THEN {WorkletThreshold, 2 * WorkletThreshold, ToneLevel}
    ELSE {FallbackThreshold, FallbackThreshold + 20, FallbackThreshold + 30}

\* the detector of device d runs `gap` frames after its last run and
\* measures e0 at f0 and e1 at f1
Detect(d, gap, e0, e1) ==
    /\ scenario.kind = "detector"
    /\ pos < MaxDecisions
    /\ LET s1 == [dev[d] EXCEPT !.currentFrame = @ + gap] IN
       dev' = [dev EXCEPT ![d] = IF s1.hasWorklet THEN DetectFrequency(s1, e0, e1)
                                 ELSE DetectLoop(s1, e0, e1)]
    /\ pos' = pos + 1
    /\ lastOp' = Op("detect", d, [result0 |-> e0, result1 |-> e1])
    /\ UNCHANGED <<air, now, scenario, stream>>

InitDetector ==
    /\ \E mode \in Modes, worklet \in BOOLEAN, start \in StartFrames :
          /\ ~worklet => start = 0
          /\ dev = [d \in Devices |-> IF d = "B" THEN Receiver(d, mode, worklet, start)
                                      ELSE NewDevice(d, "running")]
    /\ air = {}
    /\ now = 0
    /\ scenario = Scenario("detector", <<>>, <<>>, <<>>, <<>>, 0, 0, <<>>)
    /\ stream = <<>>
    /\ pos = 0
    /\ lastOp = Op("startReceiving", "B", NoData)

NextDetector ==
    \E gap \in DetectorGaps(dev["B"]), e0 \in Levels(dev["B"]), e1 \in Levels(dev["B"]) :
        Detect("B", gap, e0, e1)

SpecDetector == InitDetector /\ [][NextDetector]_vars

\* the last run of the detector handed a bit to processBit
Emitted == Len(dev'["B"].posted) > Len(dev["B"].posted)

\* C27: a decision above the threshold, taken after some bit was emitted,
\* is rejected exactly when it comes less than 0.8 / bitRate seconds after
\* that bit; in particular one that comes a bit period or more after it is
\* emitted.
C27_DuplicateSuppression ==
    [][ ( /\ lastOp'.op = "detect"
          /\ Len(dev["B"].posted) > 0
          /\ \/ lastOp'.arg.result0 > Threshold(dev["B"])
             \/ lastOp'.arg.result1 > Threshold(dev["B"]) )
        => LET prev == dev["B"].posted[Len(dev["B"].posted)].frame
               gap  == dev'["B"].currentFrame - prev
           IN  (10 * gap < 8 * SamplesPerBit(dev["B"].currentMode)) <=> ~Emitted ]_vars

\* C28: with equal energies above the threshold no bit is emitted; with no
\* energy above the threshold no bit is emitted; an emitted bit is 1 when
\* the energy at f1 is the larger and 0 when the energy at f0 is.
C28_TiePolicy ==
    [][ lastOp'.op = "detect" =>
          LET e0 == lastOp'.arg.result0
              e1 == lastOp'.arg.result1
              th == Threshold(dev["B"])
          IN  /\ ( e0 = e1 /\ e0 > th ) => ~Emitted
              /\ ( e0 <= th /\ e1 <= th ) => ~Emitted
              /\ ( Emitted /\ e0 # e1 ) =>
                    dev'["B"].posted[Len(dev'["B"].posted)].bit =
                        (IF e1 > e0 THEN 1 ELSE 0) ]_vars

(***************************************************************************)
(* Room advertisement: device A listening with its discovery timers, in    *)
(* unbounded time.  Time is counted from the present: instead of `now`     *)
(* advancing, the due time of every timer comes one second closer.         *)
(***************************************************************************)
\* one second passes; timers fire when they are due
TimePasses ==
    /\ \A d \in Devices : \A tm \in dev[d].timers : tm.due > now
    /\ dev' = [d \in Devices |->
                  [dev[d] EXCEPT !.timers = {Timer(tm.id, tm.kind, tm.due - 1) : tm \in @}]]
    /\ lastOp' = Op("tick", "", NoData)
    /\ UNCHANGED <<air, now, scenario, stream, pos>>

NextAdvert ==
    \/ \E p \in BOOLEAN : DoCreateOrJoinRoom("A", OwnRoom, p, OwnKey)
    \/ DoTogglePrivacyMode("A", OwnKey)
    \/ DoLeaveRoom("A")
    \/ HeartbeatTimer("A")
    \/ DiscoveryTimeout("A")
    \/ SweepTimer("A")
    \/ TimePasses

\* the event loop runs every timer that is due, and time passes
SpecAdvert ==
    /\ InitSession
    /\ [][NextAdvert]_vars
    /\ WF_vars(TimePasses)
    /\ WF_vars(HeartbeatTimer("A"))
    /\ WF_vars(DiscoveryTimeout("A"))
    /\ WF_vars(SweepTimer("A"))

\* device d is in a public room with discovery running
InPublicRoom(d) ==
    /\ dev[d].currentRoom # ""
    /\ ~dev[d].rooms[dev[d].currentRoom].isPrivate
    /\ ~Stopped(dev[d])

\* the last step called broadcastRoomUpdate: it handed a room_update
\* datagram of a public room to transmitData
RoomUpdateBroadcast ==
    lastOp.arg.type = "room_update" /\ ~lastOp.arg.isPrivate

\* C26: while the device stays in a public room with discovery running,
\* room_update datagrams are broadcast again and again: at any time, either
\* another broadcast follows or the room is left or made private.
C26_PublicRoomAdvertised ==
    []<>(RoomUpdateBroadcast \/ ~InPublicRoom("A"))

(***************************************************************************)
(* Frame codec: a pause inside a frame.                                    *)
(***************************************************************************)
\* the first k bits of the frame of payload p, a pause of `pause`
\* milliseconds on top of the bit period, then the remaining bits
PauseCase(p, k, pause) == Scenario("pause", p, <<>>, <<>>, <<>>, k, pause, <<>>)

\* pauses: one more bit period (the bits are two periods apart), a
\* millisecond more than that, a second
Pauses == {25, 26, 1000}

PauseScenarios ==
    {PauseCase(<<123>>, k, pause) : k \in {1, 40, 87}, pause \in Pauses}

InitPause ==
    /\ dev = [d \in Devices |-> NewDevice(d, "running")]
    /\ air = {}
    /\ now = 0
    /\ scenario \in PauseScenarios
    /\ stream = Stream(scenario)
    /\ pos = 0
    /\ lastOp = Op("new", "B", NoData)

SpecPause == InitPause /\ [][NextCodec]_vars

\* C31: the first k bits of a valid frame, a pause of any length, then the
\* remaining bits: the frame is emitted.
C31_NoTimeoutOnPartialFrames ==
    ( scenario.kind = "pause" /\ StreamDone ) => rx = <<scenario.p1>>

(***************************************************************************)
(* Transmit path: release of the transmit flag.                            *)
(***************************************************************************)
\* transmitData when generateTone throws: the catch block
AfterToneError(s, c) ==
    SetCall([s EXCEPT !.isTransmitting = FALSE, !.status = "error"],
            c, "returned", s.calls[c].data, FALSE, s.calls[c].bits)

\* the playback of a call fails
PlaybackFailed(d, c) ==
    /\ dev[d].calls[c].pc = "playing"
    /\ dev' = [dev EXCEPT ![d] = AfterToneError(@, c)]
    /\ lastOp' = Op("failed", d, dev[d].calls[c].data)
    /\ UNCHANGED <<air, now, scenario, stream, pos>>

NextTxFair ==
    \/ NextTx
    \/ \E c \in CallIds : PlaybackFailed("A", c)

\* every playback that has started ends
SpecTxFair ==
    /\ InitTx
    /\ [][NextTxFair]_vars
    /\ \A c \in CallIds : WF_vars(PlaybackEnded("A", c))

\* a transmitData call that set isTransmitting has just finished: its tone
\* ended, its playback failed, or encodePacket threw
LockHolderFinished ==
    \/ lastOp.op \in {"ended", "failed"}
    \/ /\ lastOp.op \in {"transmitData", "resumed"}
       /\ dev[lastOp.dev].status = "error"

\* C32: when a transmitData call that took the lock has finished,
\* isTransmitting is false; and whenever isTransmitting is true it becomes
\* false later, every started playback ending.
C32_TransmitLockReleased ==
    /\ [](LockHolderFinished => ~dev[lastOp.dev].isTransmitting)
    /\ \A d \in Devices : dev[d].isTransmitting ~> ~dev[d].isTransmitting

\* C32 witness: a call refused by encodePacket has released the lock and
\* the next transmitData has been accepted and is playing
C32_Witness ==
    /\ lastOp = Op("transmitData", "A", Other(2))
    /\ dev["A"].isTransmitting
    /\ \E c1, c2 \in CallIds :
          /\ dev["A"].calls[c1] =
                [pc |-> "returned", data |-> Other(maxPayloadLength + 1),
                 ok |-> FALSE, bits |-> 0]
          /\ dev["A"].calls[c2].pc = "playing"
          /\ dev["A"].calls[c2].data = Other(2)

(***************************************************************************)
(* Chat session: privacy state and the current room.                       *)
(***************************************************************************)
\* C33: in every reachable state in which currentRoom is null,
\* isPrivateMode is false and encryptionKey is unset.
C33_IdleCarriesNoPrivacyState ==
    \A d \in Devices :
        dev[d].currentRoom = "" =>
            /\ ~dev[d].isPrivateMode
            /\ dev[d].encryptionKey = <<>>

\* the invites device d accepts from B: to the public room, and to the
\* private room Q with its key and without one
AcceptableInvites(d) ==
    {Invite(d), InviteData("B", d, "Q", TRUE, PeerKey),
                InviteData("B", d, "Q", TRUE, <<>>)}

\* room operations of the application on device A, which enters rooms by
\* createOrJoinRoom and by acceptInvite
NextEntry ==
    \/ InitComplete("A")
    \/ \E p \in BOOLEAN : DoCreateOrJoinRoom("A", OwnRoom, p, OwnKey)
    \/ \E invite \in AcceptableInvites("A") : DoAcceptInvite("A", invite)
    \/ DoSendMessage("A", ChatText, 1)
    \/ DoTogglePrivacyMode("A", OwnKey)
    \/ DoLeaveRoom("A")
    \/ \E c \in CallIds : CallResumed("A", c)

SpecEntry == InitTx /\ [][NextEntry]_vars

\* C34: a chat frame built by sendMessage with isEncrypted = true carries
\* the text transformed by encryptMessage under the current key, never the
\* cleartext.
C34_EncryptedFlagMatchesContent ==
    ( lastOp.op = "sendMessage" /\ lastOp.arg.isEncrypted ) =>
        LET s    == dev[lastOp.dev]
            text == s.messageHistory[Len(s.messageHistory)].content
        IN  /\ lastOp.arg.content = EncryptMessage(text, s.encryptionKey)
            /\ lastOp.arg.content # text

\* C35: while the current room is public, encryptionKey is null.
C35_NoStaleKeyInPublicRoom ==
    \A d \in Devices :
        ( dev[d].currentRoom # "" /\ ~dev[d].rooms[dev[d].currentRoom].isPrivate )
            => dev[d].encryptionKey = <<>>

\* C36: when a waiting leaveRoom call goes on after acceptInvite or
\* createOrJoinRoom installed a new current room, the device is still in
\* that room afterwards.
C36_LeaveClearsOnlyItsRoom ==
    [][ \A d \in Devices, c \in CallIds :
          ( /\ lastOp'.op = "resumed" /\ lastOp'.dev = d
            /\ dev[d].calls[c].pc = "resuming"
            /\ dev'[d].calls[c].pc # "resuming"
            /\ dev[d].pending[c].then = "leaveRoom"
            /\ dev[d].currentRoom # ""
            /\ dev[d].calls[c].data.roomId # dev[d].currentRoom )
          => dev'[d].currentRoom = dev[d].currentRoom ]_vars

(***************************************************************************)
(* Dispatch of decoded frames.                                             *)
(***************************************************************************)
\* how many times callback cb is among the callbacks in `raised`
TimesRaised(raised, cb) ==
    Cardinality({i \in DOMAIN raised : raised[i] = cb})

\* C37: handling one decoded frame raises onInviteReceived exactly once
\* when it is an invite addressed to this device, and appends at most one
\* entry to messageHistory when it is a chat frame.
C37_ExactlyOnceDispatch ==
    [][ \A d \in Devices :
          ( lastOp'.op = "handleReceivedPacket" /\ lastOp'.dev = d ) =>
              /\ ( lastOp'.arg.type = "invite" /\ lastOp'.arg.toUserId = d )
                    => TimesRaised(dev'[d].raised, "onInviteReceived") = 1
              /\ lastOp'.arg.type = "chat"
                    => Len(dev'[d].messageHistory) <= Len(dev[d].messageHistory) + 1
      ]_vars

(***************************************************************************)
(* Discovery started more than once.                                       *)
(***************************************************************************)
InitRestart ==
    /\ dev = [d \in Devices |->
                 [NewDevice(d, "running") EXCEPT !.timerIds = 1..MaxRestartTimers]]
    /\ air = {}
    /\ now = 0
    /\ scenario = NoScenario
    /\ stream = <<>>
    /\ pos = 0
    /\ lastOp = Op("new", "B", NoData)

\* device B, whose application starts and stops discovery in any order
NextRestart ==
    \/ InitComplete("B")
    \/ DoStartDiscovery("B")
    \/ DoStopDiscovery("B")
    \/ MicGranted("B")
    \/ MicDenied("B")
    \/ HeartbeatTimer("B")
    \/ DiscoveryTimeout("B")
    \/ SweepTimer("B")
    \/ Tick(RestartHorizon)

SpecRestart == InitRestart /\ [][NextRestart]_vars

\* the heartbeat and sweep intervals of device s that are active
ActiveIntervals(s) == {tm \in s.timers : tm.kind \in {"heartbeat", "sweep"}}

\* C38: when stopDiscovery has returned, no heartbeat interval and no sweep
\* interval is active.
C38_NoLeakedTimers ==
    \A d \in Devices :
        ( lastOp.op = "stopDiscovery" /\ lastOp.dev = d )
            => ActiveIntervals(dev[d]) = {}

\* C39: at most one microphone source / detector pair is connected at any
\* time.
C39_SingleCapturePipeline ==
    \A d \in Devices : dev[d].pipelines <= 1

(***************************************************************************)
(* Connected users going offline.                                          *)
(***************************************************************************)
\* the connected users cleanupOfflineUsers finds silent at time t
SilentUsers(s, t) ==
    {u \in DOMAIN s.connectedUsers : t - s.connectedUsers[u].lastSeen > OfflineTimeout}

\* ChatManager.cleanupOfflineUsers at time t
CleanupOfflineUsers(s, t) ==
    LET silent == SilentUsers(s, t) IN
    [s EXCEPT !.connectedUsers =
                  [u \in DOMAIN @ |-> IF u \in silent
                                      THEN [@[u] EXCEPT !.isOnline = FALSE]
                                      ELSE @[u]],
              !.raised = @ \o [i \in 1..Cardinality(silent) |-> "onUserLeft"]]

\* the interval of startCleanupTimer fires
CleanupTimer(d) ==
    \E tm \in DueTimers(d, "cleanup") :
        /\ dev' = [dev EXCEPT ![d] =
                      [CleanupOfflineUsers(ClearRaised(dev[d]), now) EXCEPT
                          !.timers = Rearm(@, tm, CleanupPeriod)]]
        /\ lastOp' = Op("cleanupOfflineUsers", d, NoData)
        /\ UNCHANGED <<air, now, scenario, stream, pos>>

\* device A listening, with the cleanup timer of the application running
InitOffline ==
    /\ dev = [d \in Devices |->
                 IF d = "A"
                 THEN [Listening(d) EXCEPT
                          !.timerIds = 1..(MaxTimers + 1),
                          !.timers = @ \cup {Timer(MaxTimers + 1, "cleanup", CleanupPeriod)}]
                 ELSE NewDevice(d, "running")]
    /\ air = {}
    /\ now = 0
    /\ scenario = NoScenario
    /\ stream = <<>>
    /\ pos = 0
    /\ lastOp = Op("micGranted", "A", NoData)

\* device A's timers, and the heartbeats of B it decodes
NextOffline ==
    \/ HeartbeatTimer("A")
    \/ DiscoveryTimeout("A")
    \/ SweepTimer("A")
    \/ CleanupTimer("A")
    \/ ReceiveDatagram("A", Heartbeat("B"))
    \/ Tick(OfflineHorizon)

SpecOffline == InitOffline /\ [][NextOffline]_vars

\* C40: a pass of cleanupOfflineUsers raises onUserLeft only for users that
\* were online before the pass and have been silent for more than 30 s: at
\* most once per online-to-offline transition.
C40_OfflineNotifiedOnce ==
    [][ \A d \in Devices :
          ( lastOp'.op = "cleanupOfflineUsers" /\ lastOp'.dev = d ) =>
              TimesRaised(dev'[d].raised, "onUserLeft")
                 <= Cardinality({u \in SilentUsers(dev[d], now) :
                                    dev[d].connectedUsers[u].isOnline})
      ]_vars

=============================================================================
